---- MODULE Spec2Model ----
(***************************************************************************)
(* A model of the portfolio-construction engine of Chain-Reaction:         *)
(*   backend/models/optimizationmodels.py  (PortfolioOptimizationModel)    *)
(*   backend/models/rating_models.py       (RatingModel)                   *)
(*   backend/models/risk_profile_examples.py                               *)
(*   backend/main.py                       (the FastAPI handlers)          *)
(*                                                                         *)
(* Real numbers are kept as scaled integers:                               *)
(*   investment scores and thresholds   in hundredths  (0.85 -> 85)        *)
(*   portfolio weights and weight caps  in tenths      (0.3  -> 3)         *)
(*   returns, growth rates, covariances in hundredths  (0.04 -> 4)         *)
(*   dollar amounts                     in dollars, multiples of 10        *)
(*   RatingModel weights                in hundred-thousandths             *)
(***************************************************************************)
EXTENDS Integers, Sequences, FiniteSets, TLC

VARIABLES
    market,              \* what the market-data source answers for each ticker
    model,               \* the PortfolioOptimizationModel that was constructed
    call,                \* the call made: its operation and inputs
    evaluation_results,  \* optimize_portfolio: the rows evaluate_tickers returned
    filtered_results,    \* optimize_portfolio: the rows handed to the solver
    optimal_weights,     \* optimize_portfolio: result['x'] of the solver
    portfolio,           \* optimize_portfolio: the returned allocation
    outcome,             \* "none", "returned" or "raised"
    response,            \* the /generate-investment/ handler's reply
    rating,              \* a RatingModel instance: its profile and weights
    scoring,             \* a call of a RatingModel scoring function and its result
    loader,              \* a call that loads fundamentals or market data and its result
    merchants_db,        \* NessieIntegration: the file backend/data/merchants.json
    user_purchases,      \* NessieIntegration: the file backend/data/user_purchases.json
    http,                \* the last request a Nessie handler served, and its response
    threads,             \* the /merchant/create requests being served, one thread each
    traversal            \* demo.py: a call of get_connected_merchants and its loop

portfolioVars == <<market, model, call, evaluation_results, filtered_results,
                   optimal_weights, portfolio, outcome, response>>

ratingVars == <<rating, scoring>>

nessieVars == <<merchants_db, user_purchases, http, threads>>

serviceVars == <<loader, nessieVars, traversal>>

vars == <<portfolioVars, ratingVars, serviceVars>>

-----------------------------------------------------------------------------
(* Bounds of the model *)

\* longest ticker list handed to optimize_portfolio
MaxTickers == 4

\* most tickers get_ticker_list names for the first industry
MaxIndustryTickers == 2

\* most weights overridden in one RatingModel construction
MaxOverrides == 2

\* longest price history whose every price is drawn
MaxHistory == 3

\* the longest price history of whole trading years, in years
MaxYears == 2

\* most merchants created by the handlers called one after the other
MaxMerchants == 2

\* most investments added for one user
MaxInvestments == 2

\* most /merchant/create requests served at the same time
MaxRequests == 3

\* most links stored for one merchant
MaxLinks == 2

\* largest depth asked of get_connected_merchants
MaxDepth == 2

-----------------------------------------------------------------------------
(* Helpers on sequences *)

Min2(a, b) == IF a <= b THEN a ELSE b

Max2(a, b) == IF a >= b THEN a ELSE b

Abs(a) == IF a >= 0 THEN a ELSE 0 - a

RECURSIVE SumSeq(_)
SumSeq(s) == IF s = <<>> THEN 0 ELSE Head(s) + SumSeq(Tail(s))

Range(s) == {s[i] : i \in DOMAIN s}

\* all sequences over S of length at most n
RECURSIVE SeqsUpTo(_, _)
SeqsUpTo(S, n) ==
    IF n = 0 THEN {<<>>}
    ELSE LET shorter == SeqsUpTo(S, n - 1)
         IN shorter \cup {Append(s, x) : s \in {t \in shorter : Len(t) = n - 1}, x \in S}

\* marks, while the dicts are drawn, a key the dict will not hold
Absent == 0 - 2

\* the dict that holds the keys of f that are not marked absent
WithoutAbsent(f) == [k \in {key \in DOMAIN f : f[key] # Absent} |-> f[k]]

-----------------------------------------------------------------------------
(* The market-data source (yfinance) and the scoring model, as seen by     *)
(* PortfolioOptimizationModel                                              *)

Tickers == {"A", "B", "C"}

\* fetch_stock_data: None (is_none) when the ticker has no data, else the
\* stock data dictionary; current_price is the last close.
FetchStockData(t) ==
    [is_none       |-> market[t].status = "nodata",
     ticker        |-> t,
     current_price |-> market[t].current_price]

\* StockInvestmentModel.evaluate_stock: the evaluation of one fetched ticker;
\* raises when the evaluation fails.
EvaluateStock(t) ==
    [raises             |-> market[t].status = "evalerror",
     investment_score   |-> market[t].investment_score,
     historical_returns |-> market[t].historical_returns,
     growth_projections |-> market[t].growth_projections]

\* a batch that stops at the first ticker that cannot be fetched or evaluated
RECURSIVE EvaluateTickersAborting(_)
EvaluateTickersAborting(tickers) ==
    IF tickers = <<>> THEN <<>>
    ELSE LET ticker == Head(tickers)
         IN IF FetchStockData(ticker).is_none \/ EvaluateStock(ticker).raises THEN <<>>
            ELSE <<[ticker             |-> ticker,
                    current_price      |-> FetchStockData(ticker).current_price,
                    investment_score   |-> EvaluateStock(ticker).investment_score,
                    historical_returns |-> EvaluateStock(ticker).historical_returns,
                    growth_projections |-> EvaluateStock(ticker).growth_projections]>>
                 \o EvaluateTickersAborting(Tail(tickers))

\* evaluate_tickers: one row per ticker of the list that was fetched and
\* evaluated, in list order; a ticker named twice is evaluated twice.
RECURSIVE EvaluateTickers(_)
EvaluateTickers(tickers) ==
    IF tickers = <<>> THEN <<>>
    ELSE LET ticker == Head(tickers)
             stock_data == FetchStockData(ticker)
             rest == EvaluateTickers(Tail(tickers))
         IN IF stock_data.is_none THEN rest
            ELSE LET evaluation == EvaluateStock(ticker)
                 IN IF evaluation.raises THEN rest
                    ELSE <<[ticker             |-> ticker,
                            current_price      |-> stock_data.current_price,
                            investment_score   |-> evaluation.investment_score,
                            historical_returns |-> evaluation.historical_returns,
                            growth_projections |-> evaluation.growth_projections]>>
                         \o rest

-----------------------------------------------------------------------------
(* optimize_portfolio: the candidate filter *)

\* list.sort(key, reverse=True) and DataFrame.nlargest order rows by a key,
\* largest first, rows of equal key in their original order.
RECURSIVE InsertDesc(_, _, _)
InsertDesc(sorted, x, key) ==
    IF sorted = <<>> THEN <<x>>
    ELSE IF Head(sorted)[key] >= x[key]
         THEN <<Head(sorted)>> \o InsertDesc(Tail(sorted), x, key)
         ELSE <<x>> \o sorted

RECURSIVE SortDesc(_, _)
SortDesc(s, key) ==
    IF s = <<>> THEN <<>>
    ELSE InsertDesc(SortDesc(SubSeq(s, 1, Len(s) - 1), key), s[Len(s)], key)

\* evaluation_results.nlargest(n, 'investment_score')
NLargest(rows, n) == SubSeq(SortDesc(rows, "investment_score"), 1, n)

\* the rows with investment_score >= min_investment_score
MeetsMinimum(rows, min_investment_score) ==
    SelectSeq(rows, LAMBDA r : r.investment_score >= min_investment_score)

\* the fallback without its limit of three rows
FallbackCountUncapped(rows) == Len(rows)

\* number of rows taken when no row meets the minimum
FallbackCount(rows) == Min2(3, Len(rows))

FilterResults(rows, min_investment_score) ==
    LET meeting == MeetsMinimum(rows, min_investment_score)
    IN IF meeting = <<>> THEN NLargest(rows, FallbackCount(rows)) ELSE meeting

TickerList(rows) == [i \in DOMAIN rows |-> rows[i].ticker]

\* calculate_expected_returns, times 200000:
\* (0.3 h + 0.7 g) (0.5 + 0.5 s)  with h, g, s in hundredths
CalculateExpectedReturns(rows) ==
    [i \in DOMAIN rows |->
        (3 * rows[i].historical_returns + 7 * rows[i].growth_projections)
            * (100 + rows[i].investment_score)]

-----------------------------------------------------------------------------
(* calculate_covariance_matrix, and the covariance handling of             *)
(* optimize_portfolio.  A matrix is a pandas DataFrame with the same       *)
(* labels on rows and columns: [labels, m], m[<<i, j>>] in hundredths.     *)

\* the first occurrence of each element, in order (the keys of a dict that
\* is filled in list order)
RECURSIVE Dedupe(_)
Dedupe(s) ==
    IF s = <<>> THEN <<>>
    ELSE LET front == Dedupe(SubSeq(s, 1, Len(s) - 1))
         IN IF s[Len(s)] \in Range(front) THEN front ELSE Append(front, s[Len(s)])

\* returns_df.cov() * 252 for two tickers with history
HistoricalCovariance(t, u) ==
    IF t = u THEN market[t].variance ELSE market[t].comovement * market[u].comovement

\* the fallback matrix when no ticker has history: 0.04 on the diagonal,
\* 0.02 elsewhere, one row and column per position of the list
FallbackMatrix(tickers) ==
    [labels |-> tickers,
     m      |-> [ij \in (DOMAIN tickers) \X (DOMAIN tickers) |->
                    IF ij[1] = ij[2] THEN 4 ELSE 2]]

\* hist_avail: the tickers whose history the second fetch retrieves
CalculateCovarianceMatrix(tickers, hist_avail) ==
    LET hist_data == SelectSeq(Dedupe(tickers), LAMBDA t : t \in hist_avail)
        missing   == SelectSeq(Dedupe(tickers), LAMBDA t : t \notin hist_avail)
        columns   == hist_data \o missing
    IN IF hist_data = <<>> THEN FallbackMatrix(tickers)
       ELSE [labels |-> columns,
             m      |-> [ij \in (DOMAIN columns) \X (DOMAIN columns) |->
                            IF columns[ij[1]] \in hist_avail /\ columns[ij[2]] \in hist_avail
                            THEN HistoricalCovariance(columns[ij[1]], columns[ij[2]])
                            ELSE 0]]    \* returns_df[t] = 0.0: a constant column

\* cov_matrix[ticker] = 0.04; cov_matrix.loc[ticker] = 0.04
AddPlaceholder(cov, ticker) ==
    LET n == Len(cov.labels)
    IN [labels |-> Append(cov.labels, ticker),
        m      |-> [ij \in (1 .. n + 1) \X (1 .. n + 1) |->
                       IF ij[1] <= n /\ ij[2] <= n THEN cov.m[ij] ELSE 4]]

RECURSIVE EnsureAllTickers(_, _)
EnsureAllTickers(cov, tickers) ==
    IF tickers = <<>> THEN cov
    ELSE EnsureAllTickers(
             IF Head(tickers) \notin Range(cov.labels)
             THEN AddPlaceholder(cov, Head(tickers)) ELSE cov,
             Tail(tickers))

\* the positions .loc[keys] selects: for each key in turn, every position
\* of the index that carries that label
RECURSIVE LocPositions(_, _)
LocPositions(labels, keys) ==
    IF keys = <<>> THEN <<>>
    ELSE SelectSeq([i \in DOMAIN labels |-> i], LAMBDA i : labels[i] = Head(keys))
         \o LocPositions(labels, Tail(keys))

\* cov_matrix.loc[filtered_tickers, filtered_tickers]
Loc(cov, keys) ==
    LET pos == LocPositions(cov.labels, keys)
    IN [labels |-> [i \in DOMAIN pos |-> cov.labels[pos[i]]],
        m      |-> [ij \in (DOMAIN pos) \X (DOMAIN pos) |-> cov.m[<<pos[ij[1]], pos[ij[2]]>>]]]

-----------------------------------------------------------------------------
(* optimize_portfolio: the solver call *)

\* all weight vectors of length n with entries in 0 .. cap that sum to total
RECURSIVE WeightVectors(_, _, _)
WeightVectors(n, total, cap) ==
    IF n = 0 THEN (IF total = 0 THEN {<<>>} ELSE {})
    ELSE UNION {{<<x>> \o r : r \in WeightVectors(n - 1, total - x, cap)} :
                   x \in 0 .. Min2(cap, total)}

\* the weight vectors within the bounds that satisfy sum(x) = 1, for every
\* number of candidates and every cap
FeasibleWeights ==
    [n \in 0 .. MaxTickers + MaxIndustryTickers |-> [cap \in 0 .. 10 |-> WeightVectors(n, 10, cap)]]

\* np.dot(weights.T, np.dot(cov_matrix, weights)), times 100 * 100
RECURSIVE QuadraticForm(_, _, _, _)
QuadraticForm(weights, cov, i, j) ==
    IF i = 0 THEN 0
    ELSE IF j = 0 THEN QuadraticForm(weights, cov, i - 1, Len(weights))
    ELSE weights[i] * cov.m[<<i, j>>] * weights[j] + QuadraticForm(weights, cov, i, j - 1)

PortfolioVariance(weights, cov) ==
    QuadraticForm(weights, cov, Len(weights), Len(weights))

\* np.sum(expected_returns * weights), times 2000000
RECURSIVE PortfolioReturn(_, _, _)
PortfolioReturn(weights, expected_returns, i) ==
    IF i = 0 THEN 0
    ELSE expected_returns[i] * weights[i] + PortfolioReturn(weights, expected_returns, i - 1)

\* the utility  w.mu - 0.5 risk_aversion w'Cw  (objective returns its negation),
\* times 2000000
Utility(weights, expected_returns, cov, risk_aversion) ==
    PortfolioReturn(weights, expected_returns, Len(weights))
        - 100 * risk_aversion * PortfolioVariance(weights, cov)

\* np.dot(cov_matrix, weights) raises ValueError unless the matrix has one
\* column per weight
ObjectiveRaises(cov, n) == Len(cov.labels) # n

\* bounds = [(0.0, max_weight_per_stock)] * n
UpperBound(max_weight_per_stock) == max_weight_per_stock

\* initial_weights clipped to the bounds, which is where SLSQP starts and,
\* the constraints being incompatible, stops
ClippedInitialWeights(n, max_weight_per_stock) ==
    [i \in 1 .. n |-> Min2(10 \div n, UpperBound(max_weight_per_stock))]

\* the solver without the constraint sum(x) = 1: every weight at its bound
MinimizeWithoutBudget(expected_returns, cov, risk_aversion, max_weight_per_stock, n) ==
    {[i \in 1 .. n |-> UpperBound(max_weight_per_stock)]}

\* minimize(objective, initial_weights, method='SLSQP', bounds, constraints):
\* the set of results result['x'] can be.  When some weight vector satisfies
\* the bounds and sum(x) = 1 the result is a maximiser of the utility among
\* them; when none does the solver fails and x is left at the clipped start.
Minimize(expected_returns, cov, risk_aversion, max_weight_per_stock, n) ==
    LET feasible == FeasibleWeights[n][UpperBound(max_weight_per_stock)]
        U(w)     == Utility(w, expected_returns, cov, risk_aversion)
    IN IF feasible = {}
       THEN {ClippedInitialWeights(n, max_weight_per_stock)}
       ELSE LET scored == {<<U(w), w>> : w \in feasible}
                best   == CHOOSE u \in {p[1] : p \in scored} :
                              \A p \in scored : p[1] <= u
            IN {p[2] : p \in {q \in scored : q[1] = best}}

-----------------------------------------------------------------------------
(* optimize_portfolio: the allocation *)

\* investments = optimal_weights * investment_amount
Investments(weights, investment_amount) ==
    [i \in DOMAIN weights |-> (weights[i] * investment_amount) \div 10]

\* prices_dict = dict(zip(ticker, current_price)): a later row overwrites
PricesDict(rows, ticker) ==
    LET at == {i \in DOMAIN rows : rows[i].ticker = ticker}
    IN rows[CHOOSE i \in at : \A j \in at : j <= i].current_price

\* the entry is kept when its investment is positive
Allocated(investment) == investment > 0

\* the entries appended by the loop over zip(filtered_tickers, weights, investments)
RECURSIVE PortfolioEntries(_, _, _)
PortfolioEntries(rows, investments, i) ==
    IF i > Len(rows) THEN <<>>
    ELSE (IF Allocated(investments[i])
          THEN <<[ticker |-> rows[i].ticker,
                  price  |-> PricesDict(rows, rows[i].ticker),
                  amount |-> investments[i]]>>
          ELSE <<>>)
         \o PortfolioEntries(rows, investments, i + 1)

\* the allocation left in candidate order
SortPortfolioSkipped(entries) == entries

\* portfolio.sort(key=lambda x: x[2], reverse=True)
SortPortfolio(entries) == SortDesc(entries, "amount")

BuildPortfolio(rows, weights, investment_amount) ==
    SortPortfolio(PortfolioEntries(rows, Investments(weights, investment_amount), 1))

\* optimize_portfolio without its check for an empty evaluation: the
\* column lookup on the empty DataFrame raises KeyError
EmptyResultUnchecked(ev) ==
    [outcome |-> "raised", evaluation_results |-> ev,
     filtered_results |-> <<>>, optimal_weights |-> <<>>, portfolio |-> <<>>]

\* if evaluation_results.empty: return []
EmptyResult(ev) ==
    [outcome |-> "returned", evaluation_results |-> ev,
     filtered_results |-> <<>>, optimal_weights |-> <<>>, portfolio |-> <<>>]

\* optimize_portfolio(tickers) on a model built with the request req: the
\* set of ways the call can end
OptimizePortfolioResults(tickers, req, hist_avail) ==
    LET ev == EvaluateTickers(tickers)
    IN IF ev = <<>>
       THEN {EmptyResult(ev)}
       ELSE LET fr  == FilterResults(ev, req.min_investment_score)
                ft  == TickerList(fr)
                mu  == CalculateExpectedReturns(fr)
                cov == Loc(EnsureAllTickers(CalculateCovarianceMatrix(ft, hist_avail), ft), ft)
            IN IF ObjectiveRaises(cov, Len(ft))
               THEN {[outcome |-> "raised", evaluation_results |-> ev,
                      filtered_results |-> fr, optimal_weights |-> <<>>, portfolio |-> <<>>]}
               ELSE {[outcome |-> "returned", evaluation_results |-> ev,
                      filtered_results |-> fr, optimal_weights |-> w,
                      portfolio |-> BuildPortfolio(fr, w, req.investment_amount)] :
                        w \in Minimize(mu, cov, req.risk_aversion,
                                       req.max_weight_per_stock, Len(ft))}

-----------------------------------------------------------------------------
(* RatingModel: the weighting coefficients.  A weight is a number of       *)
(* hundred-thousandths over the denominator of its group: alpha is         *)
(* rating.alpha / rating.model_den and w1 is rating.w1 / rating.fundamental_den; *)
(* multiplying a group by factor = 1.0 / total makes total its denominator. *)

RiskProfile == {"low_risk", "medium_risk", "high_risk"}

ModelParams == <<"alpha", "beta", "gamma", "delta", "epsilon", "zeta">>

FundamentalParams == <<"w1", "w2", "w3", "w4", "w5">>

\* the denominator of a group that was not rescaled: 1.0
WeightDen == 100 * 1000

RISK_PROFILES ==
    [low_risk    |-> [alpha |-> 10000, beta |-> 10000, gamma |-> 40000,
                      delta |-> 20000, epsilon |-> 15000, zeta |-> 5000,
                      w1 |-> 25000, w2 |-> 30000, w3 |-> 15000,
                      w4 |-> 20000, w5 |-> 10000],
     medium_risk |-> [alpha |-> 20000, beta |-> 20000, gamma |-> 30000,
                      delta |-> 10000, epsilon |-> 10000, zeta |-> 10000,
                      w1 |-> 20000, w2 |-> 20000, w3 |-> 20000,
                      w4 |-> 20000, w5 |-> 20000],
     high_risk   |-> [alpha |-> 30000, beta |-> 30000, gamma |-> 20000,
                      delta |-> 5000, epsilon |-> 5000, zeta |-> 10000,
                      w1 |-> 10000, w2 |-> 10000, w3 |-> 30000,
                      w4 |-> 15000, w5 |-> 35000]]

\* np.isclose(total, 1.0):  |total - 1.0| <= 1e-8 + 1e-5 * |1.0|
IsCloseToOne(total) == 1000 * Abs(total - WeightDen) <= 1 + 1000

\* the sum of a group of weights
GroupTotal(w, params) == SumSeq([i \in DOMAIN params |-> w[params[i]]])

\* x if x is not None else profile_params[name]
ProfileOrOverride(risk_profile, overrides) ==
    [name \in Range(ModelParams) \cup Range(FundamentalParams) |->
        IF name \in DOMAIN overrides THEN overrides[name]
        ELSE RISK_PROFILES[risk_profile][name]]

\* the denominator of a group after "Validate weights sum to 1"
ValidatedDen(total) == IF IsCloseToOne(total) THEN WeightDen ELSE total

\* factor = 1.0 / total raises ZeroDivisionError when the total is 0.0
InitRaises(risk_profile, overrides) ==
    LET w == ProfileOrOverride(risk_profile, overrides)
    IN \/ GroupTotal(w, ModelParams) = 0
       \/ GroupTotal(w, FundamentalParams) = 0

\* RatingModel.__init__(risk_profile, alpha, ..., w5)
NewRatingModel(risk_profile, overrides) ==
    LET w == ProfileOrOverride(risk_profile, overrides)
    IN w @@ [status          |-> "constructed",
             risk_profile    |-> risk_profile,
             model_den       |-> ValidatedDen(GroupTotal(w, ModelParams)),
             fundamental_den |-> ValidatedDen(GroupTotal(w, FundamentalParams))]

\* get_model_for_risk_profile(risk_profile) = cls(risk_profile=risk_profile)
GetModelForRiskProfile(risk_profile) == NewRatingModel(risk_profile, <<>>)

\* no RatingModel: status is "none", or "raised" when __init__ raised
NoRating ==
    [name \in Range(ModelParams) \cup Range(FundamentalParams) |-> 0]
    @@ [status |-> "none", risk_profile |-> "medium_risk",
        model_den |-> WeightDen, fundamental_den |-> WeightDen]

-----------------------------------------------------------------------------
(* RatingModel: the scoring functions.  Prices are whole numbers; returns, *)
(* volatilities, betas and the inputs of the fundamental and growth scores *)
(* are in hundredths.  The field numpy of a result tells whether its       *)
(* numbers were computed from a Series (numpy.float64, whose division by   *)
(* zero yields nan or inf) or are literals (float, whose division by zero  *)
(* raises ZeroDivisionError).                                              *)

\* the largest k with k * k <= x
RECURSIVE SqrtBetween(_, _, _)
SqrtBetween(x, lo, hi) ==
    IF lo = hi THEN lo
    ELSE LET mid == (lo + hi + 1) \div 2
         IN IF mid * mid <= x THEN SqrtBetween(x, mid, hi)
            ELSE SqrtBetween(x, lo, mid - 1)

ISqrt(x) == SqrtBetween(x, 0, 46340)

\* price_history.pct_change().dropna()
PctChange(price_history) ==
    [i \in 1 .. Max2(Len(price_history) - 1, 0) |->
        (100 * price_history[i + 1]) \div price_history[i] - 100]

\* (price_history.iloc[-1] / price_history.iloc[-min(days, len(price_history))]) - 1
WindowReturn(price_history, days) ==
    LET n == Len(price_history)
    IN (100 * price_history[n]) \div price_history[n - Min2(days, n) + 1] - 100

\* the result for a history too short to have a return
NoReturns ==
    [annualized_return |-> 0, 1y_return |-> 0, 3m_return |-> 0, 1m_return |-> 0,
     total_return |-> 0, numpy |-> FALSE]

\* trading days per year: years = len(price_history) / 252
TradingDays == 252

RECURSIVE GCD(_, _)
GCD(a, b) == IF b = 0 THEN a ELSE GCD(b, a % b)

\* the largest value a power is computed to, in hundredths
PowerCap == 200 * 200

\* growth ** k for a whole k by repeated squaring, growth and the result in
\* hundredths, rounded down at each step and cut off at PowerCap
RECURSIVE IntPower(_, _)
IntPower(growth, k) ==
    IF k = 0 THEN 100
    ELSE LET half    == IntPower(growth, k \div 2)
             squared == Min2(PowerCap, (half * half) \div 100)
         IN IF k % 2 = 0 THEN squared
            ELSE Min2(PowerCap, (squared * growth) \div 100)

\* r ** k for whole numbers
RECURSIVE WholePower(_, _)
WholePower(r, k) == IF k = 0 THEN 1 ELSE r * WholePower(r, k - 1)

\* growth ** (1 / k), growth and the result in hundredths, rounded down
KthRoot(growth, k) ==
    CHOOSE r \in 0 .. Max2(growth, 100) :
        /\ WholePower(r, k) <= growth * WholePower(100, k - 1)
        /\ WholePower(r + 1, k) > growth * WholePower(100, k - 1)

\* growth ** (num / den), growth and the result in hundredths
Power(growth, num, den) ==
    IF num = den THEN growth
    ELSE IF den = 1 THEN IntPower(growth, num)
    ELSE IF num = 1 THEN KthRoot(growth, den)
    ELSE KthRoot(IntPower(growth, num), den)

\* the exponent 252 / n for every number of points n, as <<num, den>>
ExponentByPoints(n) == <<TradingDays \div GCD(TradingDays, n), n \div GCD(TradingDays, n)>>

\* the exponent 1 / max(years, 1) with years = n / 252, as <<num, den>>
Exponent(n) ==
    IF n <= TradingDays THEN <<1, 1>>
    ELSE <<TradingDays \div GCD(TradingDays, n), n \div GCD(TradingDays, n)>>

\* calculate_historical_returns(price_history)
CalculateHistoricalReturns(price_history) ==
    IF Len(price_history) < 2 THEN NoReturns
    ELSE LET n == Len(price_history)
             total_return == (100 * price_history[n]) \div price_history[1] - 100
         IN [annualized_return |->
                 Power(100 + total_return, Exponent(n)[1], Exponent(n)[2]) - 100,
             1y_return         |-> IF n >= 252 THEN WindowReturn(price_history, 252) ELSE 0,
             3m_return         |-> IF n >= 63 THEN WindowReturn(price_history, 63) ELSE 0,
             1m_return         |-> IF n >= 21 THEN WindowReturn(price_history, 21) ELSE 0,
             total_return      |-> total_return,
             numpy             |-> TRUE]

\* sum over i of (n x[i] - sum(x)) (n y[i] - sum(y)):  n * n * (n - 1) times
\* the sample covariance of x and y
CoMoment(x, y) ==
    LET n == Len(x)
    IN SumSeq([i \in 1 .. n |-> (n * x[i] - SumSeq(x)) * (n * y[i] - SumSeq(y))])

\* returns.std() * np.sqrt(252)
AnnualizedStd(returns) ==
    LET n == Len(returns)
    IN ISqrt((252 * CoMoment(returns, returns)) \div (n * n * (n - 1)))

\* (1 + returns).cumprod(), rounded down to hundredths
RECURSIVE CumProd(_, _)
CumProd(returns, k) ==
    IF k = 0 THEN <<>>
    ELSE LET before == CumProd(returns, k - 1)
             last   == IF k = 1 THEN 100 ELSE before[k - 1]
         IN Append(before, (last * (100 + returns[k])) \div 100)

\* ((cumulative / cumulative.cummax()) - 1).min()
MaxDrawdown(returns) ==
    LET cumulative_returns == CumProd(returns, Len(returns))
        running_max(k) == CHOOSE m \in {cumulative_returns[j] : j \in 1 .. k} :
                              \A j \in 1 .. k : cumulative_returns[j] <= m
        drawdown == {(100 * cumulative_returns[k]) \div Max2(running_max(k), 1) - 100 :
                        k \in DOMAIN cumulative_returns}
    IN CHOOSE d \in drawdown : \A e \in drawdown : d <= e

VolatilityAssessment(annualized_volatility) ==
    IF annualized_volatility < 15 THEN "Low Volatility"
    ELSE IF annualized_volatility < 25 THEN "Moderate Volatility"
    ELSE IF annualized_volatility < 35 THEN "High Volatility"
    ELSE "Very High Volatility"

\* a series too short to have a volatility, assessed as a volatility of 0
NoVolatilityAssessed(returns) ==
    [annualized_volatility |-> 0, sharpe_ratio |-> 0, max_drawdown |-> 0,
     downside_deviation |-> 0, downside_is_nan |-> FALSE,
     volatility_assessment |-> VolatilityAssessment(0), numpy |-> FALSE]

\* the result for a series too short to have a volatility
NoVolatility(returns) ==
    [annualized_volatility |-> 0, sharpe_ratio |-> 0, max_drawdown |-> 0,
     downside_deviation |-> 0, downside_is_nan |-> FALSE,
     volatility_assessment |-> "Insufficient Data", numpy |-> FALSE]

\* calculate_volatility(returns).  The std of a single negative return is
\* nan (downside_is_nan).
CalculateVolatility(returns) ==
    IF Len(returns) < 2 THEN NoVolatility(returns)
    ELSE LET annualized_volatility == AnnualizedStd(returns)
             negative_returns == SelectSeq(returns, LAMBDA r : r < 0)
         IN [annualized_volatility |-> annualized_volatility,
             sharpe_ratio          |->
                 IF annualized_volatility > 0
                 THEN (25200 * SumSeq(returns)) \div (Len(returns) * annualized_volatility)
                 ELSE 0,
             max_drawdown          |-> MaxDrawdown(returns),
             downside_deviation    |->
                 IF Len(negative_returns) >= 2 THEN AnnualizedStd(negative_returns) ELSE 0,
             downside_is_nan       |-> Len(negative_returns) = 1,
             volatility_assessment |-> VolatilityAssessment(annualized_volatility),
             numpy                 |-> TRUE]

BetaAssessment(beta) ==
    IF beta < 50 THEN "Very Defensive"
    ELSE IF beta < 80 THEN "Defensive"
    ELSE IF beta < 120 THEN "Market-like"
    ELSE IF beta < 150 THEN "Aggressive"
    ELSE "Very Aggressive"

\* A pandas Series of returns on consecutive days: the day of its first
\* value and its values.  AsSeries is a Series that starts on day 1.
AsSeries(values) == [start |-> 1, values |-> values]

SeriesIndex(series) == series.start .. (series.start + Len(series.values) - 1)

\* pd.DataFrame({'stock': stock_returns, 'market': market_returns}).dropna():
\* one row for each day that both series hold
AlignedData(stock_returns, market_returns) ==
    LET first == Max2(stock_returns.start, market_returns.start)
        n     == Cardinality(SeriesIndex(stock_returns) \cap SeriesIndex(market_returns))
    IN [stock  |-> [i \in 1 .. n |-> stock_returns.values[first + i - stock_returns.start]],
        market |-> [i \in 1 .. n |-> market_returns.values[first + i - market_returns.start]]]

InsufficientData ==
    [beta |-> 100, r_squared |-> 0, r_squared_is_nan |-> FALSE, alpha |-> 0,
     tracking_error |-> 0, beta_assessment |-> "Insufficient Data", numpy |-> FALSE]

\* the rest of calculate_beta, on the aligned rows (10 or more).  beta,
\* r_squared, alpha and tracking_error are in hundredths; the correlation of
\* a series without variance is nan.
BetaOfAligned(aligned_stock, aligned_market) ==
    LET n               == Len(aligned_stock)
        covariance      == CoMoment(aligned_stock, aligned_market)
        market_variance == CoMoment(aligned_market, aligned_market)
        stock_variance  == CoMoment(aligned_stock, aligned_stock)
        beta            == IF market_variance = 0 THEN 100
                           ELSE (100 * covariance) \div market_variance
        no_correlation  == market_variance = 0 \/ stock_variance = 0
        tracking_diff   == [i \in 1 .. n |-> aligned_stock[i] - (beta * aligned_market[i]) \div 100]
    IN [beta             |-> beta,
        r_squared        |-> IF no_correlation THEN 0
                             ELSE (100 * covariance * covariance)
                                      \div (stock_variance * market_variance),
        r_squared_is_nan |-> no_correlation,
        alpha            |-> (252 * SumSeq(aligned_stock)) \div n
                                - (beta * 252 * SumSeq(aligned_market)) \div (100 * n),
        tracking_error   |-> AnnualizedStd(tracking_diff),
        beta_assessment  |-> BetaAssessment(beta),
        numpy            |-> market_variance # 0]

\* calculate_beta aligning the two series by position, not by day
CalculateBetaByPosition(stock_returns, market_returns) ==
    LET n == Min2(Len(stock_returns.values), Len(market_returns.values))
    IN IF n < 10 THEN InsufficientData
       ELSE BetaOfAligned(SubSeq(stock_returns.values, 1, n),
                          SubSeq(market_returns.values, 1, n))

\* calculate_beta(stock_returns, market_returns)
CalculateBeta(stock_returns, market_returns) ==
    IF Len(stock_returns.values) < 10 \/ Len(market_returns.values) < 10
    THEN InsufficientData
    ELSE LET aligned_data == AlignedData(stock_returns, market_returns)
         IN IF Len(aligned_data.stock) < 10
            THEN InsufficientData
            ELSE BetaOfAligned(aligned_data.stock, aligned_data.market)

\* a weight of the model in hundredths (exact for the weights of RISK_PROFILES)
Hundredths(weight, den) == (100 * weight) \div den

\* the score of a ratio against the steps of the P/E ladder, whichever
\* steps are handed in
ScoreAgainstSectorPE(ratio, sector, steps) ==
    IF 10 * ratio < 7 * sector THEN 10
    ELSE IF 10 * ratio < 9 * sector THEN 8
    ELSE IF 10 * ratio < 11 * sector THEN 6
    ELSE IF 10 * ratio < 13 * sector THEN 4
    ELSE IF 10 * ratio < 15 * sector THEN 2
    ELSE 0

\* the score of a ratio where lower is better: the steps are multiples, in
\* tenths, of the sector average; the result is in tenths
ScoreAgainstSector(ratio, sector, steps) ==
    IF 10 * ratio < steps[1] * sector THEN 10
    ELSE IF 10 * ratio < steps[2] * sector THEN 8
    ELSE IF 10 * ratio < steps[3] * sector THEN 6
    ELSE IF 10 * ratio < steps[4] * sector THEN 4
    ELSE IF 10 * ratio < steps[5] * sector THEN 2
    ELSE 0

\* the score of a rate where higher is better, in tenths
ScoreAgainstSteps(rate, steps) ==
    IF rate < 0 THEN 0
    ELSE IF rate < steps[1] THEN 2
    ELSE IF rate < steps[2] THEN 4
    ELSE IF rate < steps[3] THEN 6
    ELSE IF rate < steps[4] THEN 8
    ELSE 10

\* calculate_fundamental_score: the normalized scores in tenths and the
\* composite score in thousandths
CalculateFundamentalScore(m, f) ==
    LET normalized_pe  == IF f.pe_ratio <= 0 THEN 0
                          ELSE ScoreAgainstSector(f.pe_ratio, f.sector_pe, <<7, 9, 11, 13, 15>>)
        normalized_de  == IF f.de_ratio < 0 THEN 0
                          ELSE ScoreAgainstSector(f.de_ratio, f.sector_de, <<5, 8, 12, 15, 20>>)
        normalized_roe == ScoreAgainstSteps(f.roe, <<5, 10, 15, 20>>)
        normalized_fcf == ScoreAgainstSteps(f.fcf_yield, <<2, 4, 6, 8>>)
        normalized_pm  == ScoreAgainstSteps(f.profit_margin, <<5, 10, 15, 20>>)
    IN [composite_score |->
            Hundredths(m.w1, m.fundamental_den) * normalized_pe
          + Hundredths(m.w2, m.fundamental_den) * normalized_de
          + Hundredths(m.w3, m.fundamental_den) * normalized_roe
          + Hundredths(m.w4, m.fundamental_den) * normalized_fcf
          + Hundredths(m.w5, m.fundamental_den) * normalized_pm,
        normalized_pe |-> normalized_pe, normalized_de |-> normalized_de,
        normalized_roe |-> normalized_roe, normalized_fcf |-> normalized_fcf,
        normalized_pm |-> normalized_pm]

\* calculate_growth_outlook without analyst recommendations: the normalized
\* scores in tenths and the composite score in twentieths
CalculateGrowthOutlook(g) ==
    LET industry == Max2(g.industry_growth, 1)
        normalized_earnings ==
            IF g.earnings_growth < 0 THEN 0
            ELSE IF 10 * g.earnings_growth < 5 * industry THEN 2
            ELSE IF 10 * g.earnings_growth < 9 * industry THEN 4
            ELSE IF 10 * g.earnings_growth < 11 * industry THEN 6
            ELSE IF 10 * g.earnings_growth < 15 * industry THEN 8
            ELSE 10
        normalized_revenue ==
            IF g.revenue_growth < 0 THEN 0
            ELSE IF 10 * g.revenue_growth < 5 * g.industry_growth THEN 2
            ELSE IF 10 * g.revenue_growth < 9 * g.industry_growth THEN 4
            ELSE IF 10 * g.revenue_growth < 11 * g.industry_growth THEN 6
            ELSE IF 10 * g.revenue_growth < 15 * g.industry_growth THEN 8
            ELSE 10
    IN [composite_score |-> normalized_earnings + normalized_revenue,
        normalized_earnings |-> normalized_earnings,
        normalized_revenue |-> normalized_revenue]

\* whether the indicators hold both keys
Has(technical_indicators, a, b) ==
    a \in DOMAIN technical_indicators /\ b \in DOMAIN technical_indicators

\* 1.0 if a > b else 0.0, in halves
Above(technical_indicators, a, b) ==
    IF technical_indicators[a] > technical_indicators[b] THEN 2 ELSE 0

\* calculate_sentiment_score: the values of the components, in halves
SentimentComponents(ti) ==
       (IF Has(ti, "price", "ma_50") THEN <<Above(ti, "price", "ma_50")>> ELSE <<>>)
    \o (IF Has(ti, "price", "ma_200") THEN <<Above(ti, "price", "ma_200")>> ELSE <<>>)
    \o (IF "rsi" \in DOMAIN ti
        THEN <<IF ti["rsi"] > 70 THEN 0 ELSE IF ti["rsi"] < 30 THEN 1 ELSE 2>>
        ELSE <<>>)
    \o (IF Has(ti, "macd", "macd_signal") THEN <<Above(ti, "macd", "macd_signal")>> ELSE <<>>)
    \o (IF Has(ti, "volume", "avg_volume") THEN <<Above(ti, "volume", "avg_volume")>> ELSE <<>>)

\* calculate_sentiment_score: the assessment of a composite score in 120ths
SentimentAssessment(composite_score) ==
    IF composite_score >= 96 THEN "Very Bullish"
    ELSE IF composite_score >= 72 THEN "Bullish"
    ELSE IF composite_score >= 48 THEN "Neutral"
    ELSE IF composite_score >= 24 THEN "Bearish"
    ELSE "Very Bearish"

\* calculate_sentiment_score dividing the total by the five signals
CalculateSentimentScoreOfFive(ti) ==
    LET components == SentimentComponents(ti)
        composite_score == (60 * SumSeq(components)) \div 5
    IN [composite_score |-> composite_score,
        assessment |-> SentimentAssessment(composite_score),
        components |-> components]

\* calculate_sentiment_score: the composite score total / max(1, count) is
\* in 120ths
CalculateSentimentScore(ti) ==
    LET components == SentimentComponents(ti)
        composite_score == (60 * SumSeq(components)) \div Max2(1, Len(components))
    IN [composite_score |-> composite_score,
        assessment |-> SentimentAssessment(composite_score),
        components |-> components]

\* the denominator of raw_score and of the weighted components: they are
\* numbers of 600000ths
RawDen == 6000 * 100

\* the denominator of investment_score: (raw_score + 0.2) / 0.7
ScoreDen == 7 * (RawDen \div 10)

ComponentNames ==
    <<"returns_premium", "growth_projection", "fundamental_metrics",
      "volatility", "systematic_risk", "market_sentiment">>

\* (raw_score + 0.2) / 0.7 without the clamp to [0, 1], in ScoreDen-ths
NormalizedScoreUnclamped(raw_score) == raw_score + 2 * (RawDen \div 10)

\* min(1.0, max(0.0, (raw_score + 0.2) / 0.7)), in ScoreDen-ths
NormalizedScore(raw_score) == Min2(ScoreDen, Max2(0, raw_score + 2 * (RawDen \div 10)))

\* weighted / (total_positive if weighted > 0 else total_negative), in
\* percent.  Dividing a float by a zero pool raises ZeroDivisionError,
\* dividing a numpy.float64 by it gives nan.
Contribution(weighted, numpy, total_positive, total_negative) ==
    LET pool == IF weighted > 0 THEN total_positive ELSE total_negative
    IN [raises |-> pool = 0 /\ ~numpy,
        nan    |-> pool = 0 /\ numpy,
        value  |-> IF pool = 0 THEN 0 ELSE (100 * weighted) \div pool]

\* calculate_investment_score of the model m
CalculateInvestmentScore(m, historical_returns, risk_free_rate, growth_outlook, fundamental_metrics, volatility_metrics, systematic_risk, market_sentiment) ==
    LET returns_premium == historical_returns.annualized_return - risk_free_rate
        weighted ==
            [returns_premium     |-> 60 * Hundredths(m.alpha, m.model_den) * returns_premium,
             growth_projection   |-> 300 * Hundredths(m.beta, m.model_den)
                                         * growth_outlook.composite_score,
             fundamental_metrics |-> 6 * Hundredths(m.gamma, m.model_den)
                                       * fundamental_metrics.composite_score,
             volatility          |-> 0 - 60 * Hundredths(m.delta, m.model_den)
                                            * volatility_metrics.annualized_volatility,
             systematic_risk     |-> 0 - 60 * Hundredths(m.epsilon, m.model_den)
                                            * (systematic_risk.beta - 100),
             market_sentiment    |-> 50 * Hundredths(m.zeta, m.model_den)
                                        * market_sentiment.composite_score]
        numpy ==
            [returns_premium     |-> historical_returns.numpy,
             growth_projection   |-> FALSE,
             fundamental_metrics |-> FALSE,
             volatility          |-> volatility_metrics.numpy,
             systematic_risk     |-> systematic_risk.numpy,
             market_sentiment    |-> FALSE]
        raw_score == SumSeq([i \in DOMAIN ComponentNames |-> weighted[ComponentNames[i]]])
        total_positive ==
            SumSeq([i \in DOMAIN ComponentNames |-> Max2(0, weighted[ComponentNames[i]])])
        total_negative ==
            SumSeq([i \in DOMAIN ComponentNames |-> Min2(0, weighted[ComponentNames[i]])])
        contribution ==
            [c \in Range(ComponentNames) |->
                IF total_positive = 0 /\ total_negative = 0
                THEN [raises |-> FALSE, nan |-> FALSE, value |-> 0]
                ELSE Contribution(weighted[c], numpy[c], total_positive, total_negative)]
    IN [raises                 |-> \E c \in Range(ComponentNames) : contribution[c].raises,
        investment_score       |-> NormalizedScore(raw_score),
        raw_score              |-> raw_score,
        risk_profile           |-> m.risk_profile,
        weighted_components    |-> weighted,
        component_contribution |-> contribution]

\* a scoring call that left the weights of the model at the medium-risk row
SelfAfterScoringDrifted(m) ==
    [name \in DOMAIN m |->
        IF name \in DOMAIN RISK_PROFILES["medium_risk"]
        THEN RISK_PROFILES["medium_risk"][name] ELSE m[name]]

\* the model object after calculate_investment_score: the method reads
\* self.alpha .. self.zeta and self.risk_profile and assigns no attribute
SelfAfterScoring(m) == m

\* risk_free_rate = 0.04 in analyze_stock_with_risk_profiles
risk_free_rate == 4

\* the body of the loop of analyze_stock_with_risk_profiles for one profile:
\* the stored result, or the error entry when the scoring raised
AnalyzeWithProfile(risk_profile, price_history, market_history, fundamentals, growth_metrics, technical_indicators) ==
    LET m                 == GetModelForRiskProfile(risk_profile)
        returns           == CalculateHistoricalReturns(price_history)
        fundamental_score == CalculateFundamentalScore(m, fundamentals)
        returns_series    == PctChange(price_history)
        volatility        == CalculateVolatility(returns_series)
        beta              == CalculateBeta(AsSeries(returns_series),
                                           AsSeries(PctChange(market_history)))
        growth_outlook    == CalculateGrowthOutlook(growth_metrics)
        sentiment         == CalculateSentimentScore(technical_indicators)
        investment_score  == CalculateInvestmentScore(m, returns, risk_free_rate,
                                 growth_outlook, fundamental_score, volatility, beta,
                                 sentiment)
    IN IF investment_score.raises
       THEN [error |-> TRUE]
       ELSE [error              |-> FALSE,
             investment_score   |-> investment_score,
             fundamental_score  |-> fundamental_score,
             volatility_metrics |-> volatility,
             beta_metrics       |-> beta,
             growth_outlook     |-> growth_outlook,
             sentiment          |-> sentiment,
             model_weights      |-> [name \in Range(ModelParams) |-> m[name]]]

\* analyze_stock_with_risk_profiles: one entry per risk profile
AnalyzeStockWithRiskProfiles(price_history, market_history, fundamentals, growth_metrics, technical_indicators) ==
    [risk_profile \in RiskProfile |->
        AnalyzeWithProfile(risk_profile, price_history, market_history, fundamentals,
                           growth_metrics, technical_indicators)]

-----------------------------------------------------------------------------
(* get_investment_recommendation *)

\* thresholds[investor_profile], in hundredths
thresholds ==
    [low_risk    |-> [strong_buy |-> 80, buy |-> 70, hold |-> 50, sell |-> 30],
     medium_risk |-> [strong_buy |-> 75, buy |-> 60, hold |-> 40, sell |-> 25],
     high_risk   |-> [strong_buy |-> 70, buy |-> 50, hold |-> 30, sell |-> 20]]

\* score >= threshold, the score in ScoreDen-ths and the threshold in hundredths
AtLeast(score, threshold) == 100 * score >= threshold * ScoreDen

\* the ladder with the thresholds of the low-risk profile for every investor
RecommendationLowRiskLadder(score, investor_profile) ==
    LET profile_thresholds == thresholds["low_risk"]
    IN IF AtLeast(score, profile_thresholds.strong_buy) THEN "Strong Buy"
       ELSE IF AtLeast(score, profile_thresholds.buy) THEN "Buy"
       ELSE IF AtLeast(score, profile_thresholds.hold) THEN "Hold"
       ELSE IF AtLeast(score, profile_thresholds.sell) THEN "Reduce"
       ELSE "Sell"

\* the if / elif ladder that determines the recommendation
Recommendation(score, investor_profile) ==
    LET profile_thresholds == thresholds[investor_profile]
    IN IF AtLeast(score, profile_thresholds.strong_buy) THEN "Strong Buy"
       ELSE IF AtLeast(score, profile_thresholds.buy) THEN "Buy"
       ELSE IF AtLeast(score, profile_thresholds.hold) THEN "Hold"
       ELSE IF AtLeast(score, profile_thresholds.sell) THEN "Reduce"
       ELSE "Sell"

\* the confidence that goes with a recommendation
Confidence(recommendation) ==
    CASE recommendation \in {"Strong Buy", "Sell"} -> "High"
      [] recommendation \in {"Buy", "Reduce"}      -> "Moderate to High"
      [] OTHER                                      -> "Moderate"

\* the action that goes with a recommendation
SuggestedAction(recommendation) ==
    CASE recommendation = "Strong Buy" -> "Consider significant position within risk limits"
      [] recommendation = "Buy"        -> "Consider standard position size"
      [] recommendation = "Hold"       -> "Maintain current position or watch list"
      [] recommendation = "Reduce"     -> "Consider reducing position"
      [] OTHER                         -> "Consider exiting position"

\* risk_notes with each bound counted as a trigger
RiskNotesFromBound(profile_analysis) ==
    (IF profile_analysis.volatility_metrics.annualized_volatility >= 25
     THEN <<"High price volatility detected">> ELSE <<>>)
    \o (IF profile_analysis.beta_metrics.beta >= 150
        THEN <<"High market sensitivity (beta)">> ELSE <<>>)
    \o (IF profile_analysis.fundamental_score.normalized_de <= 3
        THEN <<"High debt levels relative to sector">> ELSE <<>>)
    \o (IF profile_analysis.growth_outlook.composite_score <= 6
        THEN <<"Weak growth outlook">> ELSE <<>>)

\* risk_notes, in the order the checks append them
RiskNotes(profile_analysis) ==
    (IF profile_analysis.volatility_metrics.annualized_volatility > 25
     THEN <<"High price volatility detected">> ELSE <<>>)
    \o (IF profile_analysis.beta_metrics.beta > 150
        THEN <<"High market sensitivity (beta)">> ELSE <<>>)
    \o (IF profile_analysis.fundamental_score.normalized_de < 3
        THEN <<"High debt levels relative to sector">> ELSE <<>>)
    \o (IF profile_analysis.growth_outlook.composite_score < 6
        THEN <<"Weak growth outlook">> ELSE <<>>)

\* get_investment_recommendation(analysis_results, investor_profile): an
\* error entry has no 'investment_score', the KeyError is caught and the
\* result is {'error': ...}
GetInvestmentRecommendation(analysis_results, investor_profile) ==
    LET profile_analysis == analysis_results[investor_profile]
    IN IF profile_analysis.error
       THEN [error |-> TRUE]
       ELSE LET score == profile_analysis.investment_score.investment_score
                recommendation == Recommendation(score, investor_profile)
            IN [error             |-> FALSE,
                recommendation    |-> recommendation,
                confidence_level  |-> Confidence(recommendation),
                suggested_action  |-> SuggestedAction(recommendation),
                investment_score  |-> score,
                risk_notes        |-> RiskNotes(profile_analysis),
                risk_profile_used |-> investor_profile]

\* no scoring call made yet
NoScoring ==
    [op |-> "none", price_history |-> <<>>, returns |-> <<>>,
     historical_returns |-> NoReturns, volatility_metrics |-> NoVolatility(<<>>),
     results |-> <<>>, recommendations |-> <<>>, calls |-> <<>>,
     arguments |-> <<>>, fundamental_score |-> <<>>, growth_outlook |-> <<>>,
     market_sentiment |-> <<>>, systematic_risk |-> <<>>]

-----------------------------------------------------------------------------
(* The inputs the model draws *)

\* What the source answers for a ticker: no data ("nodata"), data the
\* scoring model fails on ("evalerror"), or data that scores 0.10 ("low"),
\* 0.80 ("mid") or 0.90 ("high").
Answers(t) ==
    CASE t = "A" -> {"nodata", "low", "high"}
      [] t = "B" -> {"evalerror", "mid"}
      [] OTHER   -> {"low"}

LastClose(t) == CASE t = "A" -> 150 [] t = "B" -> 40 [] OTHER -> 75

Quote(t, answer) ==
    [status             |-> IF answer \in {"nodata", "evalerror"} THEN answer ELSE "ok",
     current_price      |-> IF answer = "nodata" THEN 0 ELSE LastClose(t),
     investment_score   |-> CASE answer = "low" -> 10 [] answer = "mid" -> 80
                              [] answer = "high" -> 90 [] OTHER -> 0,
     historical_returns |-> CASE answer = "low" -> -10 [] answer = "mid" -> 5
                              [] answer = "high" -> 20 [] OTHER -> 0,
     growth_projections |-> IF answer \in {"mid", "high"} THEN 10 ELSE 0,
     variance           |-> CASE answer = "low" -> 9 [] answer = "mid" -> 4
                              [] answer = "high" -> 6 [] OTHER -> 0,
     comovement         |-> IF answer = "high" THEN 2 ELSE 1]

Markets ==
    {[t \in Tickers |-> Quote(t, answer[t])] :
        answer \in {a \in [Tickers -> UNION {Answers(t) : t \in Tickers}] :
                       \A t \in Tickers : a[t] \in Answers(t)}}

\* the requests: capital, minimum score, risk aversion, weight cap
Requests ==
    [investment_amount    : {10000},
     min_investment_score : {85},
     risk_aversion        : {2},
     max_weight_per_stock : {3, 5, 10}]
    \cup
    [investment_amount    : {0},
     min_investment_score : {85},
     risk_aversion        : {2},
     max_weight_per_stock : {10}]

\* the query parameters of /generate-investment/ the model varies; the
\* others keep the handler's defaults (0.60 and 2.0)
HandlerRequests ==
    [investment_amount    : {10000},
     min_investment_score : {60},
     risk_aversion        : {2},
     max_weight_per_stock : {3, 5, 10}]

TickerLists == SeqsUpTo(Tickers, MaxTickers)

\* the ticker dictionaries get_ticker_list returns: the ticker lists of the
\* industries, in the dictionary's order
TickerDicts ==
    {<<first, second>> : first \in SeqsUpTo(Tickers, MaxIndustryTickers),
                         second \in SeqsUpTo(Tickers, 1)}
    \cup {<<>>}

\* the tickers whose history the covariance fetch retrieves: in a direct
\* call all or none of them, in a handler call also some of them
HistAvailChoices == {{}, Tickers}

HandlerHistAvailChoices == {{}, {"A", "B"}, Tickers}

\* the weight overrides handed to RatingModel.__init__: at most MaxOverrides
\* of the eleven weights, each one of OverrideValues
OverrideValues == {0, 10001, 30000, 0 - 90000}

Overrides ==
    UNION {[names -> OverrideValues] :
              names \in {S \in SUBSET (Range(ModelParams) \cup Range(FundamentalParams)) :
                            Cardinality(S) <= MaxOverrides}}

Prices == {50, 100, 200}

PriceHistories == SeqsUpTo(Prices, MaxHistory)

\* price histories of whole trading years: flat until the last day
LongHistories ==
    {[i \in 1 .. years * TradingDays |-> IF i = years * TradingDays THEN last ELSE first] :
        years \in 1 .. MaxYears, first \in Prices, last \in Prices}

MarketHistories == {<<>>, <<100, 100, 110>>}

\* fundamentals: a pathological company (P/E = -50, ROE = 5.0), a company
\* that scores 0 on every metric, and one that scores 1 on every metric
FundamentalsChoices ==
    {[pe_ratio |-> 0 - 5000, de_ratio |-> 50, roe |-> 500, fcf_yield |-> 5,
      profit_margin |-> 12, sector_pe |-> 2000, sector_de |-> 100],
     [pe_ratio |-> 4000, de_ratio |-> 300, roe |-> 0 - 10, fcf_yield |-> 0 - 1,
      profit_margin |-> 0 - 5, sector_pe |-> 2000, sector_de |-> 100],
     [pe_ratio |-> 1000, de_ratio |-> 30, roe |-> 25, fcf_yield |-> 10,
      profit_margin |-> 25, sector_pe |-> 2000, sector_de |-> 100]}

GrowthChoices ==
    {[earnings_growth |-> 20, revenue_growth |-> 20, industry_growth |-> 10],
     [earnings_growth |-> 0 - 5, revenue_growth |-> 0 - 5, industry_growth |-> 10]}

\* technical indicators: none, all bullish, and an oversold RSI alone
TechnicalChoices ==
    {<<>>,
     [price |-> 110, ma_50 |-> 100, ma_200 |-> 90, rsi |-> 50, macd |-> 2,
      macd_signal |-> 1, volume |-> 200, avg_volume |-> 100],
     [rsi |-> 25]}

NoModel == [constructed |-> FALSE, investment_amount |-> 0, min_investment_score |-> 0,
            risk_aversion |-> 0, max_weight_per_stock |-> 0]

NoCall == [op |-> "none", tickers |-> <<>>, hist_avail |-> {}, gemini_ok |-> TRUE,
           investment_amount |-> 0]

NoResponse == [status |-> 0, portfolio |-> <<>>, total_investment |-> 0]

NoLoad == [op |-> "none"]

\* a file that holds JSON, or one that json.load cannot decode (empty after
\* open(file_path, 'w'), or holding the bytes of two writers)
File(data) == [decodable |-> TRUE, data |-> data]

Undecodable == [decodable |-> FALSE, data |-> <<>>]

NoRequest == [op |-> "none"]

NoTraversal == [pc |-> "none"]

\* the data loaders and the services, before anything is called: the data
\* files are as _initialize_db_files creates them, {"merchants": []} and {}
ServiceIdle ==
    /\ loader = NoLoad
    /\ merchants_db = File(<<>>)
    /\ user_purchases = File(<<>>)
    /\ http = NoRequest
    /\ threads = <<>>
    /\ traversal = NoTraversal

InitPortfolio ==
    /\ ServiceIdle
    /\ market \in Markets
    /\ model = NoModel
    /\ call = NoCall
    /\ evaluation_results = <<>>
    /\ filtered_results = <<>>
    /\ optimal_weights = <<>>
    /\ portfolio = <<>>
    /\ outcome = "none"
    /\ response = NoResponse
    /\ rating = NoRating
    /\ scoring = NoScoring

-----------------------------------------------------------------------------
(* The operations *)

\* PortfolioOptimizationModel.__init__
NewModel(req) ==
    [constructed          |-> TRUE,
     investment_amount    |-> req.investment_amount,
     min_investment_score |-> req.min_investment_score,
     risk_aversion        |-> req.risk_aversion,
     max_weight_per_stock |-> req.max_weight_per_stock]

Construct(req) ==
    /\ ~model.constructed
    /\ call.op = "none"
    /\ model' = NewModel(req)
    /\ UNCHANGED <<market, call, evaluation_results, filtered_results,
                   optimal_weights, portfolio, outcome, response, ratingVars, serviceVars>>

\* model.optimize_portfolio(tickers).  The call reads the model and writes
\* nothing of it, so one call per constructed model stands for every call.
OptimizePortfolio(tickers, hist_avail) ==
    /\ model.constructed
    /\ call.op = "none"
    /\ \E r \in OptimizePortfolioResults(tickers, model, hist_avail) :
          /\ evaluation_results' = r.evaluation_results
          /\ filtered_results' = r.filtered_results
          /\ optimal_weights' = r.optimal_weights
          /\ portfolio' = r.portfolio
          /\ outcome' = r.outcome
    /\ call' = [op |-> "optimize_portfolio", tickers |-> tickers,
                hist_avail |-> hist_avail, gemini_ok |-> TRUE,
                investment_amount |-> model.investment_amount]
    /\ UNCHANGED <<market, model, response, ratingVars, serviceVars>>

\* all_tickers = [ticker for sublist in ticker_dict.values() for ticker in sublist]
RECURSIVE Flatten(_)
Flatten(lists) == IF lists = <<>> THEN <<>> ELSE Head(lists) \o Flatten(Tail(lists))

\* portfolio_stocks and total_investment of the reply
PortfolioStocks(p) ==
    [i \in DOMAIN p |-> [ticker |-> p[i].ticker, price |-> p[i].price,
                         investment |-> p[i].amount]]

TotalInvestment(p) == SumSeq([i \in DOMAIN p |-> p[i].amount])

\* POST /generate-investment/ : gemini_ok is whether Gemini() could be built
GenerateInvestment(gemini_ok, ticker_dict, req, hist_avail) ==
    /\ ~model.constructed
    /\ call.op = "none"
    /\ call' = [op |-> "generate_investment", tickers |-> Flatten(ticker_dict),
                hist_avail |-> hist_avail, gemini_ok |-> gemini_ok,
                investment_amount |-> req.investment_amount]
    /\ IF ~gemini_ok
       THEN /\ response' = [status |-> 500, portfolio |-> <<>>, total_investment |-> 0]
            /\ outcome' = "raised"
            /\ UNCHANGED <<model, evaluation_results, filtered_results,
                           optimal_weights, portfolio>>
       ELSE IF Flatten(ticker_dict) = <<>>
       THEN /\ response' = [status |-> 200, portfolio |-> <<>>, total_investment |-> 0]
            /\ outcome' = "returned"
            /\ UNCHANGED <<model, evaluation_results, filtered_results,
                           optimal_weights, portfolio>>
       ELSE /\ model' = NewModel(req)
            /\ \E r \in OptimizePortfolioResults(Flatten(ticker_dict), NewModel(req), hist_avail) :
                  /\ evaluation_results' = r.evaluation_results
                  /\ filtered_results' = r.filtered_results
                  /\ optimal_weights' = r.optimal_weights
                  /\ portfolio' = r.portfolio
                  /\ outcome' = r.outcome
                  /\ response' =
                        IF r.outcome = "raised"
                        THEN [status |-> 500, portfolio |-> <<>>, total_investment |-> 0]
                        ELSE [status |-> 200, portfolio |-> PortfolioStocks(r.portfolio),
                              total_investment |-> TotalInvestment(r.portfolio)]
    /\ UNCHANGED <<market, ratingVars, serviceVars>>

NextPortfolio ==
    \/ \E req \in Requests : Construct(req)
    \/ \E tickers \in TickerLists, hist_avail \in HistAvailChoices :
          OptimizePortfolio(tickers, hist_avail)
    \/ \E gemini_ok \in BOOLEAN, ticker_dict \in TickerDicts,
          req \in HandlerRequests, hist_avail \in HandlerHistAvailChoices :
          GenerateInvestment(gemini_ok, ticker_dict, req, hist_avail)

SpecPortfolio == InitPortfolio /\ [][NextPortfolio]_vars

\* the portfolio side while the rating model is exercised: nothing called
PortfolioIdle ==
    /\ ServiceIdle
    /\ market = [t \in Tickers |-> Quote(t, "low")]
    /\ model = NoModel
    /\ call = NoCall
    /\ evaluation_results = <<>>
    /\ filtered_results = <<>>
    /\ optimal_weights = <<>>
    /\ portfolio = <<>>
    /\ outcome = "none"
    /\ response = NoResponse

InitWeights == PortfolioIdle /\ rating = NoRating /\ scoring = NoScoring

\* RatingModel(risk_profile, **overrides)
RatingInit(risk_profile, overrides) ==
    /\ rating.status = "none"
    /\ rating' = IF InitRaises(risk_profile, overrides)
                 THEN [NoRating EXCEPT !.status = "raised"]
                 ELSE NewRatingModel(risk_profile, overrides)
    /\ UNCHANGED <<portfolioVars, serviceVars, scoring>>

\* switch_risk_profile assigning the new numerators while the factors of
\* the last normalization stay in force
SwitchRiskProfileKeepingFactor(new_profile) ==
    /\ rating.status = "constructed"
    /\ rating' = [name \in DOMAIN rating |->
                     IF name = "risk_profile" THEN new_profile
                     ELSE IF name \in DOMAIN RISK_PROFILES[new_profile]
                     THEN RISK_PROFILES[new_profile][name]
                     ELSE rating[name]]
    /\ scoring' = [scoring EXCEPT
                      !.op = "switch_risk_profile",
                      !.arguments = [new_profile |-> new_profile, self |-> rating]]
    /\ UNCHANGED <<portfolioVars, serviceVars>>

\* rating.switch_risk_profile(new_profile); scoring keeps the call made: its
\* argument and the model it was made on
SwitchRiskProfile(new_profile) ==
    /\ rating.status = "constructed"
    /\ rating' = [name \in DOMAIN rating |->
                     IF name = "risk_profile" THEN new_profile
                     ELSE IF name \in DOMAIN RISK_PROFILES[new_profile]
                     THEN RISK_PROFILES[new_profile][name]
                     ELSE IF name \in {"model_den", "fundamental_den"} THEN WeightDen
                     ELSE rating[name]]
    /\ scoring' = [scoring EXCEPT
                      !.op = "switch_risk_profile",
                      !.arguments = [new_profile |-> new_profile, self |-> rating]]
    /\ UNCHANGED <<portfolioVars, serviceVars>>

NextWeights ==
    \/ \E risk_profile \in RiskProfile, overrides \in Overrides :
          RatingInit(risk_profile, overrides)
    \/ \E new_profile \in RiskProfile : SwitchRiskProfile(new_profile)

SpecWeights == InitWeights /\ [][NextWeights]_vars

InitScoring == PortfolioIdle /\ rating = NoRating /\ scoring = NoScoring

\* model.calculate_historical_returns(price_history)
CallCalculateHistoricalReturns(price_history) ==
    /\ scoring.op = "none"
    /\ scoring' = [scoring EXCEPT
                      !.op = "calculate_historical_returns",
                      !.price_history = price_history,
                      !.historical_returns = CalculateHistoricalReturns(price_history)]
    /\ UNCHANGED <<portfolioVars, serviceVars, rating>>

\* model.calculate_volatility(price_history.pct_change().dropna()), the call
\* that follows calculate_historical_returns on the same history; it is made
\* for the histories whose every price is drawn
CallCalculateVolatility ==
    /\ scoring.op = "calculate_historical_returns"
    /\ Len(scoring.price_history) <= MaxHistory
    /\ scoring' = [scoring EXCEPT
                      !.op = "calculate_volatility",
                      !.returns = PctChange(scoring.price_history),
                      !.volatility_metrics =
                          CalculateVolatility(PctChange(scoring.price_history))]
    /\ UNCHANGED <<portfolioVars, serviceVars, rating>>

\* analyze_stock_with_risk_profiles(ticker, price_history, market_history,
\*     fundamentals, growth_metrics, technical_indicators)
CallAnalyzeStock(price_history, market_history, fundamentals, growth_metrics, technical_indicators) ==
    /\ scoring.op = "none"
    /\ scoring' = [scoring EXCEPT
                      !.op = "analyze_stock_with_risk_profiles",
                      !.price_history = price_history,
                      !.results = AnalyzeStockWithRiskProfiles(price_history,
                                      market_history, fundamentals, growth_metrics,
                                      technical_indicators)]
    /\ UNCHANGED <<portfolioVars, serviceVars, rating>>

\* for risk_profile in RiskProfile:
\*     recommendation = get_investment_recommendation(results, risk_profile)
\* on the results of the analysis
CallGetInvestmentRecommendation ==
    /\ scoring.op = "analyze_stock_with_risk_profiles"
    /\ scoring' = [scoring EXCEPT
                      !.op = "analyze_and_recommend",
                      !.recommendations =
                          [investor_profile \in RiskProfile |->
                              GetInvestmentRecommendation(scoring.results, investor_profile)]]
    /\ UNCHANGED <<portfolioVars, serviceVars, rating>>

\* the scores 0.00, 0.05, .. 1.00
Scores == {k * (ScoreDen \div 20) : k \in 0 .. 20}

\* an entry of analysis_results reduced to what get_investment_recommendation
\* reads: the score, the annualized volatility and the beta in hundredths,
\* the normalized D/E score in tenths, the growth composite in twentieths
AnalysisEntry(score, volatility, beta, normalized_de, growth) ==
    [error              |-> FALSE,
     investment_score   |-> [investment_score |-> score],
     fundamental_score  |-> [composite_score |-> 500, normalized_de |-> normalized_de],
     volatility_metrics |-> [annualized_volatility |-> volatility,
                             volatility_assessment |-> VolatilityAssessment(volatility)],
     beta_metrics       |-> [beta |-> beta, beta_assessment |-> BetaAssessment(beta)],
     growth_outlook     |-> [composite_score |-> growth]]

\* analysis results in which every profile's entry carries the same score
\* and the same metrics, each metric below, on or beyond the bound of its
\* risk note
AnalysisResultsChoices ==
    {[risk_profile \in RiskProfile |->
            AnalysisEntry(score, volatility, beta, normalized_de, growth)] :
        score \in Scores, volatility \in {10, 25, 30}, beta \in {100, 150, 160},
        normalized_de \in {2, 3, 6}, growth \in {4, 6, 12}}

\* get_investment_recommendation(analysis_results, investor_profile) for
\* each investor profile, on analysis results handed in by the caller
CallGetInvestmentRecommendationOn(analysis_results) ==
    /\ scoring.op = "none"
    /\ scoring' = [scoring EXCEPT
                      !.op = "get_investment_recommendation",
                      !.results = analysis_results,
                      !.recommendations =
                          [investor_profile \in RiskProfile |->
                              GetInvestmentRecommendation(analysis_results, investor_profile)]]
    /\ UNCHANGED <<portfolioVars, serviceVars, rating>>

NextScoring ==
    \/ \E price_history \in PriceHistories \cup LongHistories :
          CallCalculateHistoricalReturns(price_history)
    \/ CallCalculateVolatility
    \/ CallGetInvestmentRecommendation
    \/ \E analysis_results \in AnalysisResultsChoices :
          CallGetInvestmentRecommendationOn(analysis_results)
    \/ \E price_history \in PriceHistories, market_history \in MarketHistories,
          fundamentals \in FundamentalsChoices, growth_metrics \in GrowthChoices,
          technical_indicators \in TechnicalChoices :
          CallAnalyzeStock(price_history, market_history, fundamentals,
                           growth_metrics, technical_indicators)

SpecScoring == InitScoring /\ [][NextScoring]_vars

-----------------------------------------------------------------------------
(* Direct calls of the scoring methods on one RatingModel *)

\* the arguments of calculate_investment_score: the dictionaries the
\* calculate_* methods return, reduced to the entries the score reads.  A
\* literal 0.0 or 1.0 is a float, a computed value a numpy.float64.
HistoricalReturnsChoices ==
    {NoReturns,
     [NoReturns EXCEPT !.annualized_return = 104, !.total_return = 104, !.numpy = TRUE],
     [NoReturns EXCEPT !.annualized_return = 0 - 96, !.total_return = 0 - 96, !.numpy = TRUE]}

GrowthOutlookChoices == {[composite_score |-> 0], [composite_score |-> 20]}

FundamentalMetricsChoices == {[composite_score |-> 0], [composite_score |-> 1000]}

VolatilityMetricsChoices ==
    {NoVolatility(<<>>),
     [NoVolatility(<<>>) EXCEPT !.annualized_volatility = 30,
                                !.volatility_assessment = VolatilityAssessment(30),
                                !.numpy = TRUE]}

SystematicRiskChoices ==
    {[beta |-> 100, beta_assessment |-> "Insufficient Data", numpy |-> FALSE],
     [beta |-> 150, beta_assessment |-> BetaAssessment(150), numpy |-> TRUE]}

MarketSentimentChoices == {[composite_score |-> 0], [composite_score |-> 120]}

ScoreArguments ==
    [historical_returns  : HistoricalReturnsChoices,
     risk_free_rate      : {risk_free_rate},
     growth_outlook      : GrowthOutlookChoices,
     fundamental_metrics : FundamentalMetricsChoices,
     volatility_metrics  : VolatilityMetricsChoices,
     systematic_risk     : SystematicRiskChoices,
     market_sentiment    : MarketSentimentChoices]

InitScore == PortfolioIdle /\ rating = NoRating /\ scoring = NoScoring

\* model = RatingModel.get_model_for_risk_profile(risk_profile)
GetModel(risk_profile) ==
    /\ rating.status = "none"
    /\ rating' = GetModelForRiskProfile(risk_profile)
    /\ UNCHANGED <<portfolioVars, serviceVars, scoring>>

\* rating.calculate_investment_score(**args): the first call, or a second
\* call on the same model object
CallCalculateInvestmentScore(args) ==
    /\ rating.status = "constructed"
    /\ scoring.op \in {"none", "calculate_investment_score"}
    /\ Len(scoring.calls) < 2
    /\ scoring' = [scoring EXCEPT
                      !.op = "calculate_investment_score",
                      !.calls = Append(@,
                          [args         |-> args,
                           risk_profile |-> rating.risk_profile,
                           weights      |-> [name \in Range(ModelParams) |-> rating[name]],
                           result       |-> CalculateInvestmentScore(rating,
                                                args.historical_returns, args.risk_free_rate,
                                                args.growth_outlook, args.fundamental_metrics,
                                                args.volatility_metrics, args.systematic_risk,
                                                args.market_sentiment)])]
    /\ rating' = SelfAfterScoring(rating)
    /\ UNCHANGED <<portfolioVars, serviceVars>>

\* multiples of the sector average, in hundredths: below, on and between
\* the steps of both ladders
Multiples ==
    {0 - 50, 0, 40, 50, 60, 70, 80, 90, 100, 110, 120, 130, 140, 150, 175, 200, 250}

\* the arguments of calculate_fundamental_score: sector averages 20.0 and
\* 1.0, P/E and D/E at every pair of multiples of them
FundamentalsArguments ==
    {[pe_ratio |-> 20 * pe_multiple, de_ratio |-> de_multiple, roe |-> 12,
      fcf_yield |-> 5, profit_margin |-> 25, sector_pe |-> 2000, sector_de |-> 100] :
        pe_multiple \in Multiples, de_multiple \in Multiples}

\* rating.calculate_fundamental_score(**fundamentals)
CallCalculateFundamentalScore(fundamentals) ==
    /\ rating.status = "constructed"
    /\ scoring.op = "none"
    /\ scoring' = [scoring EXCEPT
                      !.op = "calculate_fundamental_score",
                      !.arguments = fundamentals,
                      !.fundamental_score = CalculateFundamentalScore(rating, fundamentals)]
    /\ UNCHANGED <<portfolioVars, serviceVars, rating>>

\* the arguments of calculate_growth_outlook, in hundredths: growth rates
\* below, on and between the steps of an industry growing by 10%, and an
\* industry that does not grow
GrowthRates == {0 - 5, 0, 4, 8, 10, 12, 20}

GrowthArguments ==
    [earnings_growth : GrowthRates, revenue_growth : GrowthRates, industry_growth : {0, 10}]

\* rating.calculate_growth_outlook(**growth_metrics)
CallCalculateGrowthOutlook(growth_metrics) ==
    /\ rating.status = "constructed"
    /\ scoring.op = "none"
    /\ scoring' = [scoring EXCEPT
                      !.op = "calculate_growth_outlook",
                      !.arguments = growth_metrics,
                      !.growth_outlook = CalculateGrowthOutlook(growth_metrics)]
    /\ UNCHANGED <<portfolioVars, serviceVars, rating>>

\* every dict of indicators: each key is absent or holds one of its values
TechnicalIndicators ==
    {WithoutAbsent(f) :
        f \in [price       : {Absent, 100},
               ma_50       : {Absent, 90, 110},
               ma_200      : {Absent, 90, 110},
               rsi         : {Absent, 20, 30, 70, 80},
               macd        : {Absent, 1},
               macd_signal : {Absent, 0, 2},
               volume      : {Absent, 5},
               avg_volume  : {Absent, 0, 6}]}

\* rating.calculate_sentiment_score(technical_indicators)
CallCalculateSentimentScore(technical_indicators) ==
    /\ rating.status = "constructed"
    /\ scoring.op = "none"
    /\ scoring' = [scoring EXCEPT
                      !.op = "calculate_sentiment_score",
                      !.arguments = technical_indicators,
                      !.market_sentiment = CalculateSentimentScore(technical_indicators)]
    /\ UNCHANGED <<portfolioVars, serviceVars, rating>>

\* returns of a stock and of the market, in hundredths: ten to twelve days
\* of a pattern that repeats
Repeat(pattern, n) == [i \in 1 .. n |-> pattern[((i - 1) % Len(pattern)) + 1]]

StockReturns ==
    {[start |-> start, values |-> Repeat(pattern, n)] :
        start \in {1, 3}, n \in {9, 10, 12}, pattern \in {<<0, 2>>, <<1, 0, 0>>, <<1>>}}

MarketReturns ==
    {[start |-> start, values |-> Repeat(pattern, n)] :
        start \in {1, 2, 4}, n \in {9, 10, 12}, pattern \in {<<0, 1>>, <<1, 0, 1>>, <<1>>}}

\* rating.calculate_beta(stock_returns, market_returns)
CallCalculateBeta(stock_returns, market_returns) ==
    /\ rating.status = "constructed"
    /\ scoring.op = "none"
    /\ scoring' = [scoring EXCEPT
                      !.op = "calculate_beta",
                      !.arguments = [stock_returns |-> stock_returns,
                                     market_returns |-> market_returns],
                      !.systematic_risk = CalculateBeta(stock_returns, market_returns)]
    /\ UNCHANGED <<portfolioVars, serviceVars, rating>>

NextScore ==
    \/ \E stock_returns \in StockReturns, market_returns \in MarketReturns :
          CallCalculateBeta(stock_returns, market_returns)
    \/ \E technical_indicators \in TechnicalIndicators :
          CallCalculateSentimentScore(technical_indicators)
    \/ \E growth_metrics \in GrowthArguments : CallCalculateGrowthOutlook(growth_metrics)
    \/ \E risk_profile \in RiskProfile : GetModel(risk_profile)
    \/ \E args \in ScoreArguments : CallCalculateInvestmentScore(args)
    \/ \E fundamentals \in FundamentalsArguments :
          CallCalculateFundamentalScore(fundamentals)

SpecScore == InitScore /\ [][NextScore]_vars

-----------------------------------------------------------------------------
(* Loading fundamentals and market data: DataLoader (data_loader.py) and   *)
(* fetch_stock_data / fetch_market_data of PortfolioOptimizationModel.     *)
(* info is the dict the source answers: a function from the keys it holds  *)
(* to their values.  P/E, D/E, ROE, FCF yield and profit margin are in     *)
(* hundredths, cash flow and market capitalisation in billions, the quote  *)
(* of ^TNX in hundredths of a point, a treasury yield in ten-thousandths.  *)

\* Python's None as a value of info; every number drawn is non-negative
None == 0 - 1

\* info.get(key, default)
Get(info, key, default) == IF key \in DOMAIN info THEN info[key] ELSE default

\* DataLoader._get_default_data, and the mock data of fetch_stock_data
DefaultData == [pe_ratio |-> 20 * 100, de_ratio |-> 100, roe |-> 15, fcf_yield |-> 5, profit_margin |-> 15]

\* DataLoader._get_default_market_data, and the fallback of fetch_market_data
DefaultMarketData == [treasury_yield |-> 4 * 100, sector_pe |-> 20 * 100, sector_de |-> 120]

\* DataLoader._calculate_fcf_yield
CalculateFcfYield(info) ==
    LET fcf        == Get(info, "freeCashflow", 1)
        market_cap == Get(info, "marketCap", 10)
    IN  IF market_cap = None \/ market_cap = 0 THEN 5        \* falsy market_cap
        ELSE IF fcf = None THEN 5                           \* TypeError
        ELSE (100 * fcf) \div market_cap

\* DataLoader.get_rating_model_data; raw_ok tells whether get_raw_stock_data
\* answered without an 'error' key
GetRatingModelData(raw_ok, info) ==
    LET de == Get(info, "debtToEquity", 100)
    IN  IF ~raw_ok \/ de = None
        THEN DefaultData
        ELSE [pe_ratio      |-> Get(info, "trailingPE", 20 * 100),
              de_ratio      |-> (100 * de) \div 100,
              roe           |-> Get(info, "returnOnEquity", 15),
              fcf_yield     |-> CalculateFcfYield(info),
              profit_margin |-> Get(info, "profitMargin", 15)]

\* fetch_stock_data, its financial data; info_ok tells whether stock.info
\* answered without raising
FetchFinancialData(info_ok, info) ==
    LET de         == Get(info, "debtToEquity", 100)
        fcf        == Get(info, "freeCashflow", 1)
        market_cap == Get(info, "marketCap", 10)
    IN  IF ~info_ok \/ de = None
        THEN DefaultData
        ELSE [pe_ratio      |-> Get(info, "trailingPE", 20 * 100),
              de_ratio      |-> (100 * de) \div 100,
              roe           |-> Get(info, "returnOnEquity", 15),
              fcf_yield     |-> IF fcf = None \/ market_cap = None \/ market_cap = 0
                                THEN 5
                                ELSE (100 * fcf) \div market_cap,
              profit_margin |-> Get(info, "profitMargin", 15)]

\* DataLoader.get_market_data; raw_ok tells whether both get_raw_stock_data
\* calls answered without an 'error' key, info is the info of ^TNX
GetMarketData(raw_ok, info) ==
    LET price == Get(info, "regularMarketPrice", 400 * 100)
    IN  IF ~raw_ok \/ price = None
        THEN DefaultMarketData
        ELSE [treasury_yield |-> (price * 100 * 100) \div (100 * 100),
              sector_pe      |-> 20 * 100,
              sector_de      |-> 120]

\* fetch_market_data; market_ok tells whether the history of ^GSPC was read,
\* closes is the one-day history of ^TNX (empty when it could not be read)
FetchMarketData(market_ok, closes) ==
    IF ~market_ok
    THEN DefaultMarketData
    ELSE [treasury_yield |-> IF closes = <<>>
                             THEN 4 * 100
                             ELSE (closes[Len(closes)] * 100 * 100) \div (100 * 100),
          sector_pe      |-> 20 * 100,
          sector_de      |-> 120]

\* every dict of info: each key is absent or holds one of its values
Infos ==
    {WithoutAbsent(f) :
        f \in [trailingPE     : {Absent, None, 30 * 100},
               debtToEquity   : {Absent, None, 150},
               returnOnEquity : {Absent, None, 20},
               freeCashflow   : {Absent, None, 2},
               marketCap      : {Absent, None, 0, 40},
               profitMargin   : {Absent, None, 10}]}

TreasuryInfos == {WithoutAbsent(f) : f \in [regularMarketPrice : {Absent, None, 425}]}

TreasuryCloses == {<<>>, <<425>>, <<410, 425>>}

CallGetRatingModelData(raw_ok, info) ==
    /\ loader = NoLoad
    /\ loader' = [op |-> "get_rating_model_data", available |-> raw_ok, info |-> info,
                  result |-> GetRatingModelData(raw_ok, info)]
    /\ UNCHANGED <<portfolioVars, ratingVars, nessieVars, traversal>>

CallFetchStockData(info_ok, info) ==
    /\ loader = NoLoad
    /\ loader' = [op |-> "fetch_stock_data", available |-> info_ok, info |-> info,
                  result |-> FetchFinancialData(info_ok, info)]
    /\ UNCHANGED <<portfolioVars, ratingVars, nessieVars, traversal>>

CallGetMarketData(raw_ok, info) ==
    /\ loader = NoLoad
    /\ loader' = [op |-> "get_market_data", available |-> raw_ok, info |-> info,
                  result |-> GetMarketData(raw_ok, info)]
    /\ UNCHANGED <<portfolioVars, ratingVars, nessieVars, traversal>>

CallFetchMarketData(market_ok, closes) ==
    /\ loader = NoLoad
    /\ loader' = [op |-> "fetch_market_data", available |-> market_ok, closes |-> closes,
                  result |-> FetchMarketData(market_ok, closes)]
    /\ UNCHANGED <<portfolioVars, ratingVars, nessieVars, traversal>>

InitLoader == PortfolioIdle /\ rating = NoRating /\ scoring = NoScoring

NextLoader ==
    \/ \E raw_ok \in BOOLEAN, info \in Infos : CallGetRatingModelData(raw_ok, info)
    \/ \E info_ok \in BOOLEAN, info \in Infos : CallFetchStockData(info_ok, info)
    \/ \E raw_ok \in BOOLEAN, info \in TreasuryInfos : CallGetMarketData(raw_ok, info)
    \/ \E market_ok \in BOOLEAN, closes \in TreasuryCloses : CallFetchMarketData(market_ok, closes)

SpecLoader == InitLoader /\ [][NextLoader]_vars

-----------------------------------------------------------------------------
(* NessieIntegration (nessie.py) and its handlers (main.py).  A merchant    *)
(* is [merchant_id, name]; the id f"m_{n:03d}" is kept as <<"m_", n>>.  The  *)
(* data of user_purchases.json maps a user to a record with the key         *)
(* "account" and, once an investment was added, the key "investments".      *)

\* _load_json: the data of the file, {} when it cannot be decoded
LoadJson(file) == IF file.decodable THEN file.data ELSE <<>>

MerchantId(n) == <<"m_", n>>

\* create_merchant on the loaded list: the id it gives and the list it saves
NewMerchant(merchants, name) ==
    [merchant_id |-> MerchantId(Len(merchants) + 1), name |-> name]

\* get_merchant_by_id: the first merchant of the list with that id, or None
GetMerchantById(merchants, merchant_id) ==
    LET hits == {i \in DOMAIN merchants : merchants[i].merchant_id = merchant_id}
    IN IF hits = {} THEN [found |-> FALSE, merchant |-> <<>>]
       ELSE [found |-> TRUE,
             merchant |-> merchants[CHOOSE i \in hits : \A j \in hits : i <= j]]

\* what the body of a handler's try block does: it returns a value or
\* raises an exception
Returned(value) == [raised |-> FALSE, value |-> value, status_code |-> 200, detail |-> ""]

\* raise HTTPException(status_code, detail), whose str is "status_code: detail"
HTTPException(status_code, detail) ==
    [raised |-> TRUE, value |-> <<>>, status_code |-> status_code, detail |-> detail,
     type |-> "HTTPException", str |-> ToString(status_code) \o ": " \o detail]

\* merchants["merchants"] on the {} of a file that could not be decoded
KeyError(key) ==
    [raised |-> TRUE, value |-> <<>>, status_code |-> 0, detail |-> "",
     type |-> "KeyError", str |-> key]

\* try: body / except Exception as e: raise HTTPException(500, str(e)).
\* HTTPException is an Exception, so one raised in the body is caught too.
ExceptException(body) ==
    IF body.raised THEN HTTPException(500, body.str) ELSE body

\* the same handler with an "except HTTPException: raise" before the
\* except Exception clause
ReraiseHTTPException(body) ==
    IF body.raised /\ body.type # "HTTPException" THEN HTTPException(500, body.str)
    ELSE body

\* what the client gets: the value with status 200, or the status and the
\* detail of the HTTPException the handler raised
Response(raised_or_returned) ==
    [status |-> raised_or_returned.status_code, detail |-> raised_or_returned.detail,
     body |-> raised_or_returned.value]

\* add_investment appending to the list of every user on record
AddInvestmentToAll(file, user, investment_details) ==
    LET data == LoadJson(file)
        stamped == [investment_details EXCEPT !.timestamp = "now"]
    IN IF user \notin DOMAIN data
       THEN [success |-> FALSE, file |-> file]
       ELSE [success |-> TRUE,
             file |-> File([u \in DOMAIN data |->
                              [key \in DOMAIN data[u] \cup {"investments"} |->
                                  IF key = "investments"
                                  THEN Append(IF "investments" \in DOMAIN data[u]
                                              THEN data[u]["investments"] ELSE <<>>, stamped)
                                  ELSE data[u][key]]])]

\* NessieIntegration.add_investment(user, investment_details): what it
\* returns and what it leaves in user_purchases.json
AddInvestment(file, user, investment_details) ==
    LET data == LoadJson(file)
    IN IF user \notin DOMAIN data
       THEN [success |-> FALSE, file |-> file]
       ELSE LET investments == IF "investments" \in DOMAIN data[user]
                               THEN data[user]["investments"] ELSE <<>>
                stamped == [investment_details EXCEPT !.timestamp = "now"]
                record == [key \in DOMAIN data[user] \cup {"investments"} |->
                              IF key = "investments" THEN Append(investments, stamped)
                              ELSE data[user][key]]
            IN [success |-> TRUE, file |-> File([data EXCEPT ![user] = record])]

\* NessieIntegration.make_purchase: the purchase recorded in the local file
MakePurchase(file, customer_id, purchase) ==
    LET data  == LoadJson(file)
        known == IF customer_id \in DOMAIN data THEN data
                 ELSE data @@ (customer_id :> [account |-> [purchases |-> <<>>]])
    IN File([known EXCEPT ![customer_id].account.purchases = Append(@, purchase)])

Users == {"u1", "u2"}

MerchantNames == {"Cafe", "Store"}

Amounts == {5, 7}

\* POST /merchant/create, served alone
CreateMerchantRequest(name) ==
    /\ threads = <<>>
    /\ Len(LoadJson(merchants_db)) < MaxMerchants
    /\ LET merchants == LoadJson(merchants_db)
           merchant  == NewMerchant(merchants, name)
       IN /\ merchants_db' = File(Append(merchants, merchant))
          /\ http' = [op |-> "create_merchant", name |-> name,
                      response |-> Response(ExceptException(
                                       Returned([merchant_id |-> merchant.merchant_id])))]
    /\ UNCHANGED <<portfolioVars, ratingVars, loader, traversal, user_purchases, threads>>

\* GET /merchant/{merchant_id}
GetMerchantRequest(merchant_id) ==
    /\ threads = <<>>
    /\ LET merchant == GetMerchantById(LoadJson(merchants_db), merchant_id)
           body == IF merchant.found THEN Returned(merchant.merchant)
                   ELSE HTTPException(404, "Merchant not found")
       IN http' = [op |-> "get_merchant", merchant_id |-> merchant_id,
                   response |-> Response(ExceptException(body))]
    /\ UNCHANGED <<portfolioVars, ratingVars, loader, traversal, merchants_db, user_purchases, threads>>

\* POST /purchase/create
MakePurchaseRequest(customer_id, merchant_id, amount) ==
    /\ threads = <<>>
    /\ customer_id \notin DOMAIN LoadJson(user_purchases)
    /\ LET purchase == [merchant_id |-> merchant_id, amount |-> amount]
       IN /\ user_purchases' = MakePurchase(user_purchases, customer_id, purchase)
          /\ http' = [op |-> "make_purchase", user |-> customer_id,
                      response |-> Response(ExceptException(Returned(purchase)))]
    /\ UNCHANGED <<portfolioVars, ratingVars, loader, traversal, merchants_db, threads>>

\* the investments on record for a user
InvestmentsOf(data, user) ==
    IF user \in DOMAIN data /\ "investments" \in DOMAIN data[user]
    THEN data[user]["investments"] ELSE <<>>

\* POST /investment/add
AddInvestmentRequest(user, merchant_id, amount) ==
    /\ threads = <<>>
    /\ Len(InvestmentsOf(LoadJson(user_purchases), user)) < MaxInvestments
    /\ LET investment_details == [merchant_id |-> merchant_id,
                                  supply_chain_component |-> "component",
                                  amount |-> amount, timestamp |-> ""]
           added == AddInvestment(user_purchases, user, investment_details)
           body  == IF added.success
                    THEN Returned([status |-> "success", user |-> user])
                    ELSE HTTPException(404, "User " \o user \o " not found")
       IN /\ user_purchases' = added.file
          /\ http' = [op |-> "add_investment", user |-> user,
                      investment_details |-> investment_details,
                      success |-> added.success, user_purchases |-> user_purchases,
                      response |-> Response(ExceptException(body))]
    /\ UNCHANGED <<portfolioVars, ratingVars, loader, traversal, merchants_db, threads>>

InitNessie == PortfolioIdle /\ rating = NoRating /\ scoring = NoScoring

NextNessie ==
    \/ \E name \in MerchantNames : CreateMerchantRequest(name)
    \/ \E n \in 1 .. MaxMerchants + 1 : GetMerchantRequest(MerchantId(n))
    \/ \E customer_id \in Users, amount \in Amounts :
          MakePurchaseRequest(customer_id, MerchantId(1), amount)
    \/ \E user \in Users, amount \in Amounts :
          AddInvestmentRequest(user, MerchantId(1), amount)

SpecNessie == InitNessie /\ [][NextNessie]_vars

-----------------------------------------------------------------------------
(* /merchant/create served on worker threads: the handler is a plain def,  *)
(* FastAPI runs each request on a thread of its pool, and the threads      *)
(* share the one NessieIntegration and its merchants.json.  A thread reads *)
(* the file (_load_json), later opens it for writing, which empties it,    *)
(* and later writes its list (_save_json); nothing orders the threads.     *)

\* a request arrives: its thread is about to call nessie.create_merchant.
\* The request names a merchant of its own.
Request ==
    /\ http = NoRequest
    /\ Len(threads) < MaxRequests
    /\ threads' = Append(threads, [pc |-> "load", name |-> Len(threads) + 1,
                                   merchants |-> <<>>, merchant_id |-> MerchantId(0),
                                   overlapped |-> FALSE, status |-> 0])
    /\ UNCHANGED <<portfolioVars, ratingVars, loader, traversal, merchants_db, user_purchases, http>>

\* merchants = self._load_json(...), the id and the append; {} from a file
\* that cannot be decoded has no "merchants" and the handler answers 500
Load(t) ==
    /\ threads[t].pc = "load"
    /\ threads' = [threads EXCEPT ![t] =
           IF merchants_db.decodable
           THEN LET merchant == NewMerchant(merchants_db.data, threads[t].name)
                IN [@ EXCEPT !.pc = "open",
                             !.merchants = Append(merchants_db.data, merchant),
                             !.merchant_id = merchant.merchant_id]
           ELSE [@ EXCEPT !.pc = "done",
                          !.status = Response(ExceptException(KeyError("merchants"))).status]]
    /\ UNCHANGED <<portfolioVars, ratingVars, loader, traversal, merchants_db, user_purchases, http>>

\* _save_json: open(file_path, 'w') empties the file
Open(t) ==
    /\ threads[t].pc = "open"
    /\ merchants_db' = Undecodable
    /\ threads' = [threads EXCEPT ![t].pc = "write", ![t].overlapped = FALSE]
    /\ UNCHANGED <<portfolioVars, ratingVars, loader, traversal, user_purchases, http>>

\* _save_json: json.dump and the close.  A thread whose file was written by
\* another thread since it opened it writes over those bytes from the start
\* of the file: the file then holds its list, or its list followed by the
\* rest of the longer text, which json.load cannot decode.
Write(t) ==
    /\ threads[t].pc = "write"
    /\ \/ merchants_db' = File(threads[t].merchants)
       \/ threads[t].overlapped /\ merchants_db' = Undecodable
    /\ threads' = [u \in DOMAIN threads |->
                      IF u = t THEN [threads[u] EXCEPT !.pc = "done", !.status = 200]
                      ELSE IF threads[u].pc = "write"
                      THEN [threads[u] EXCEPT !.overlapped = TRUE]
                      ELSE threads[u]]
    /\ UNCHANGED <<portfolioVars, ratingVars, loader, traversal, user_purchases, http>>

InitMerchants == PortfolioIdle /\ rating = NoRating /\ scoring = NoScoring

NextMerchants ==
    \/ Request
    \/ \E t \in DOMAIN threads : Load(t)
    \/ \E t \in DOMAIN threads : Open(t)
    \/ \E t \in DOMAIN threads : Write(t)

SpecMerchants == InitMerchants /\ [][NextMerchants]_vars

-----------------------------------------------------------------------------
(* demo.py: GET /merchants/{merchant_id}/connected.  merchants is the data *)
(* of the merchants file reduced to the links: it maps each stored         *)
(* merchant to the set of ids in its "connected_merchants".  The loop is   *)
(* taken one turn at a time.                                               *)

\* merchants.get(current_id, {}).get("connected_merchants", [])
LinksOf(merchants, current_id) ==
    IF current_id \in DOMAIN merchants THEN merchants[current_id] ELSE {}

\* the orders in which a list may hold the ids of a set
Orderings(S) ==
    {order \in [1 .. Cardinality(S) -> S] :
        \A i, j \in 1 .. Cardinality(S) : order[i] = order[j] => i = j}

\* one turn of the while loop that also collects the merchant asked about
TurnKeepingStart(t, links) ==
    LET current_id    == t.to_visit[1][1]
        current_depth == t.to_visit[1][2]
        rest          == Tail(t.to_visit)
        visited       == t.visited \cup {current_id}
        unvisited     == SelectSeq(links, LAMBDA connected_id : connected_id \notin visited)
    IN IF current_id \in t.visited \/ current_depth > t.depth
       THEN [t EXCEPT !.to_visit = rest, !.turns = @ + 1]
       ELSE [t EXCEPT
                !.visited   = visited,
                !.connected = @ \cup {current_id},
                !.to_visit  = IF current_depth < t.depth
                              THEN rest \o [i \in DOMAIN unvisited |->
                                               <<unvisited[i], current_depth + 1>>]
                              ELSE rest,
                !.turns     = @ + 1]

\* one turn of the while loop (lines 296-310); links is the list of the
\* current merchant's connected_merchants
Turn(t, links) ==
    LET current_id    == t.to_visit[1][1]
        current_depth == t.to_visit[1][2]
        rest          == Tail(t.to_visit)
        visited       == t.visited \cup {current_id}
        unvisited     == SelectSeq(links, LAMBDA connected_id : connected_id \notin visited)
    IN IF current_id \in t.visited \/ current_depth > t.depth
       THEN [t EXCEPT !.to_visit = rest, !.turns = @ + 1]
       ELSE [t EXCEPT
                !.visited   = visited,
                !.connected = IF current_id # t.merchant_id
                              THEN @ \cup {current_id} ELSE @,
                !.to_visit  = IF current_depth < t.depth
                              THEN rest \o [i \in DOMAIN unvisited |->
                                               <<unvisited[i], current_depth + 1>>]
                              ELSE rest,
                !.turns     = @ + 1]

MerchantIds == {"a", "b", "c"}

\* the stored merchants and their links: every merchant is stored, or "c"
\* is not and the links to it lead nowhere
MerchantGraphs ==
    UNION {[stored -> {S \in SUBSET MerchantIds : Cardinality(S) <= MaxLinks}] :
              stored \in {MerchantIds, {"a", "b"}}}

\* the handler is called: an unknown merchant raises the 404 inside the
\* try, which the except clause answers with a 500
GetConnectedMerchants(merchants, merchant_id, depth) ==
    /\ traversal = NoTraversal
    /\ traversal' =
          [pc          |-> IF merchant_id \in DOMAIN merchants THEN "loop" ELSE "done",
           merchants   |-> merchants,
           merchant_id |-> merchant_id,
           depth       |-> depth,
           connected   |-> {},
           to_visit    |-> <<<<merchant_id, 0>>>>,
           visited     |-> {},
           turns       |-> 0,
           response    |-> IF merchant_id \in DOMAIN merchants
                           THEN Response(Returned(<<>>))
                           ELSE Response(ExceptException(
                                    HTTPException(404, "Merchant not found")))]
    /\ UNCHANGED <<portfolioVars, ratingVars, loader, nessieVars>>

\* while to_visit: one turn
Visit ==
    /\ traversal.pc = "loop"
    /\ traversal.to_visit # <<>>
    /\ \E links \in Orderings(LinksOf(traversal.merchants, traversal.to_visit[1][1])) :
          traversal' = Turn(traversal, links)
    /\ UNCHANGED <<portfolioVars, ratingVars, loader, nessieVars>>

\* to_visit is empty: the stored merchants among connected are listed, in
\* the order the set yields them, and returned
ReturnConnected ==
    /\ traversal.pc = "loop"
    /\ traversal.to_visit = <<>>
    /\ \E connected_merchants \in
             Orderings(traversal.connected \cap DOMAIN traversal.merchants) :
          traversal' = [traversal EXCEPT
                           !.pc = "done",
                           !.response = Response(ExceptException(
                                            Returned(connected_merchants)))]
    /\ UNCHANGED <<portfolioVars, ratingVars, loader, nessieVars>>

InitGraph == PortfolioIdle /\ rating = NoRating /\ scoring = NoScoring

NextGraph ==
    \/ \E merchants \in MerchantGraphs, merchant_id \in MerchantIds, depth \in 0 .. MaxDepth :
          GetConnectedMerchants(merchants, merchant_id, depth)
    \/ Visit
    \/ ReturnConnected

SpecGraph == InitGraph /\ [][NextGraph]_vars

\* the thread that serves the request keeps running: a turn of the loop
\* that can be taken is taken, and so is the return
SpecGraphLive == SpecGraph /\ WF_vars(Visit) /\ WF_vars(ReturnConnected)

-----------------------------------------------------------------------------
(* Properties of optimize_portfolio and /generate-investment/ *)

\* optimize_portfolio was called (directly or by the handler)
OptimizeRan == call.op # "none" /\ model.constructed

\* optimize_portfolio was called and returned an allocation
AllocationReturned == OptimizeRan /\ outcome = "returned"

\* number of positions of s that hold x
Count(s, x) == Cardinality({i \in DOMAIN s : s[i] = x})

\* s and t hold the same elements the same number of times
SameElements(s, t) ==
    /\ Len(s) = Len(t)
    /\ \A x \in Range(s) \cup Range(t) : Count(s, x) = Count(t, x)

\* the rows of s at the positions in S, in their order in s
RowsAt(s, S) == SelectSeq([i \in DOMAIN s |-> IF i \in S THEN <<s[i]>> ELSE <<>>],
                          LAMBDA x : x # <<>>)

\* the dollars the allocation assigns to ticker t
DollarsOn(t) ==
    SumSeq([i \in DOMAIN portfolio |->
               IF portfolio[i].ticker = t THEN portfolio[i].amount ELSE 0])

\* C3: whenever max_weight_per_stock x (number of filtered candidates) < 1,
\* optimize_portfolio ends in an error and returns no allocation.
C3_DegenerateConstraintsSurfaced ==
    (/\ OptimizeRan
     /\ filtered_results # <<>>
     /\ model.max_weight_per_stock * Len(filtered_results) < 10)
    => outcome = "raised"

\* C4: the candidates handed to the solver are exactly the evaluated rows
\* whose score is at least min_investment_score when some row reaches it;
\* when none does they are the min(3, n) highest-scoring evaluated rows.
C4_CandidateSet ==
    (OptimizeRan /\ evaluation_results # <<>>) =>
        LET ev    == evaluation_results
            clear == {i \in DOMAIN ev :
                        ev[i].investment_score >= model.min_investment_score}
            k     == IF Len(ev) < 3 THEN Len(ev) ELSE 3
        IN IF clear # {}
           THEN filtered_results = [i \in 1 .. Cardinality(clear) |->
                                       RowsAt(ev, clear)[i][1]]
           ELSE \E S \in SUBSET DOMAIN ev :
                   /\ Cardinality(S) = k
                   /\ \A i \in S, j \in (DOMAIN ev) \ S :
                         ev[i].investment_score >= ev[j].investment_score
                   /\ SameElements(filtered_results,
                                   [i \in 1 .. k |-> RowsAt(ev, S)[i][1]])

\* C4 witness: scores 0.9 / 0.8 / 0.1 with threshold 0.85: only the 0.9
\* ticker is a candidate, the fallback does not engage.
C4_Witness ==
    /\ OptimizeRan
    /\ call.tickers = <<"A", "B", "C">>
    /\ model.min_investment_score = 85
    /\ Len(evaluation_results) = 3
    /\ [i \in 1 .. 3 |-> evaluation_results[i].investment_score] = <<90, 80, 10>>
    /\ TickerList(filtered_results) = <<"A">>

C6_PerTickerCap ==
    AllocationReturned =>
        \A t \in Tickers :
            10 * DollarsOn(t) <= model.max_weight_per_stock * model.investment_amount

\* C7: whenever at least one ticker was evaluated and investment_amount > 0,
\* optimize_portfolio returns a non-empty allocation.
C7_NeverEmpty ==
    (OptimizeRan /\ evaluation_results # <<>> /\ model.investment_amount > 0)
    => (outcome = "returned" /\ portfolio # <<>>)

\* C8: with zero candidates (an empty ticker list, or no ticker that could be
\* evaluated) the result is an empty allocation, total investment 0, and no
\* error reaches the caller.
C8_EmptyCandidateSet ==
    /\ (OptimizeRan /\ evaluation_results = <<>>) =>
          (outcome = "returned" /\ portfolio = <<>>)
    /\ (/\ call.op = "generate_investment"
        /\ call.gemini_ok
        /\ evaluation_results = <<>>) =>
          (/\ response.status = 200
           /\ response.portfolio = <<>>
           /\ response.total_investment = 0)

\* C8 witness: the handler was given tickers, none of which could be
\* evaluated, and replied with the empty portfolio.
C8_Witness ==
    /\ call.op = "generate_investment"
    /\ call.gemini_ok
    /\ Len(call.tickers) >= 2
    /\ model.constructed
    /\ evaluation_results = <<>>
    /\ response = [status |-> 200, portfolio |-> <<>>, total_investment |-> 0]

\* C9: the allocation holds one [ticker, price, amount] entry for exactly the
\* candidates whose amount weight x investment_amount is positive, ordered by
\* amount, largest first.
C9_PositiveEntriesSorted ==
    (AllocationReturned /\ evaluation_results # <<>>) =>
        LET fr       == filtered_results
            dollars  == [i \in DOMAIN fr |->
                            (optimal_weights[i] * model.investment_amount) \div 10]
            positive == {i \in DOMAIN fr : dollars[i] > 0}
            expected == [i \in DOMAIN fr |->
                            [ticker |-> fr[i].ticker, price |-> fr[i].current_price,
                             amount |-> dollars[i]]]
        IN /\ SameElements(portfolio,
                           [i \in 1 .. Cardinality(positive) |->
                               RowsAt(expected, positive)[i][1]])
           /\ \A i, j \in DOMAIN portfolio :
                 i < j => portfolio[i].amount >= portfolio[j].amount

\* C9 witness: a candidate with weight 0 is left out, and the entries kept
\* have different amounts.
C9_Witness ==
    /\ AllocationReturned
    /\ Len(portfolio) >= 2
    /\ Len(portfolio) < Len(filtered_results)
    /\ portfolio[1].ticker # portfolio[2].ticker
    /\ portfolio[1].amount > portfolio[Len(portfolio)].amount

\* cov_matrix as the objective uses it: calculate_covariance_matrix on the
\* candidates, the placeholder rows, and the selection of the candidates
cov_matrix ==
    LET filtered_tickers == TickerList(filtered_results)
    IN Loc(EnsureAllTickers(CalculateCovarianceMatrix(filtered_tickers, call.hist_avail),
                            filtered_tickers),
           filtered_tickers)

\* C20: in the covariance matrix used for allocation, a candidate whose
\* price history is unavailable has variance 0.04 and covariance 0.02 with
\* every other ticker, whether some or all of the candidates lack history.
C20_FallbackCovariance ==
    (OptimizeRan /\ filtered_results # <<>>) =>
        \A i \in DOMAIN cov_matrix.labels :
            cov_matrix.labels[i] \notin call.hist_avail =>
                /\ cov_matrix.m[<<i, i>>] = 4
                /\ \A j \in DOMAIN cov_matrix.labels :
                      cov_matrix.labels[j] # cov_matrix.labels[i] =>
                          /\ cov_matrix.m[<<i, j>>] = 2
                          /\ cov_matrix.m[<<j, i>>] = 2

\* C21: whatever subset of the candidates had retrievable history, the
\* covariance matrix the solver's objective uses has exactly one row and
\* one column per filtered candidate, in the order of the candidates, and
\* none for any other ticker.
C21_CovarianceMatchesCandidates ==
    (OptimizeRan /\ filtered_results # <<>>) =>
        /\ cov_matrix.labels = TickerList(filtered_results)
        /\ DOMAIN cov_matrix.m
              = (DOMAIN filtered_results) \X (DOMAIN filtered_results)

-----------------------------------------------------------------------------
(* Properties of RatingModel *)

\* total / den is 1.0 to within 1e-9
SumsToOne(total, den) == 10000 * Abs(total - den) <= Abs(den) \div 100000

\* C1: for every input and each of the three risk profiles, scoring a ticker
\* yields a result with 0 <= investment_score <= 1, never an error entry.
C1_ScoreAlwaysReturned ==
    scoring.op = "analyze_stock_with_risk_profiles" =>
        \A risk_profile \in RiskProfile :
            LET entry == scoring.results[risk_profile]
            IN /\ ~entry.error
               /\ entry.investment_score.investment_score >= 0
               /\ entry.investment_score.investment_score <= ScoreDen

\* C2: in every constructed RatingModel, whatever the profile, the overrides
\* and the profile switches made since, alpha .. zeta sum to 1.0 and
\* w1 .. w5 sum to 1.0.
C2_WeightsSumToOne ==
    rating.status = "constructed" =>
        /\ SumsToOne(GroupTotal(rating, ModelParams), rating.model_den)
        /\ SumsToOne(GroupTotal(rating, FundamentalParams), rating.fundamental_den)

\* (1 + total_return) of the history scored, in hundredths
GrowthOf(price_history) ==
    (100 * price_history[Len(price_history)]) \div price_history[1]

\* a = g ** (252 / n), in hundredths rounded down, for n a divisor or a
\* multiple of 252: a is g multiplied (252 / n) times, or a ** (n / 252) is
\* the largest such power that does not exceed g
IsPowerByPoints(a, g, n) ==
    IF TradingDays % n = 0
    THEN a = IntPower(g, TradingDays \div n)
    ELSE LET k == n \div TradingDays
         IN /\ n % TradingDays = 0
            /\ WholePower(a, k) <= g * WholePower(100, k - 1)
            /\ WholePower(a + 1, k) > g * WholePower(100, k - 1)

\* C19 as stated: for every price history of n >= 2 points
\* annualized_return = (1 + total_return) ^ (252 / n) - 1, for n < 252 as
\* well as for longer histories.
C19_AnnualizedByPoints ==
    (/\ scoring.op = "calculate_historical_returns"
     /\ Len(scoring.price_history) >= 2) =>
        IsPowerByPoints(100 + scoring.historical_returns.annualized_return,
                        GrowthOf(scoring.price_history), Len(scoring.price_history))

\* C19 amended: for n >= 252 points annualized_return =
\* (1 + total_return) ^ (252 / n) - 1; for 2 <= n < 252 the return is not
\* annualized, annualized_return = total_return.
C19_AnnualizedFromOneYear ==
    (/\ scoring.op = "calculate_historical_returns"
     /\ Len(scoring.price_history) >= 2) =>
        /\ scoring.historical_returns.total_return = GrowthOf(scoring.price_history) - 100
        /\ IF Len(scoring.price_history) < TradingDays
           THEN scoring.historical_returns.annualized_return
                    = scoring.historical_returns.total_return
           ELSE IsPowerByPoints(100 + scoring.historical_returns.annualized_return,
                                GrowthOf(scoring.price_history),
                                Len(scoring.price_history))

\* C19 witness: a price that quadrupled over two trading years has a total
\* return of 300% and an annualized return of 100%
C19_Witness ==
    /\ scoring.op = "calculate_historical_returns"
    /\ Len(scoring.price_history) = 2 * TradingDays
    /\ scoring.historical_returns.total_return = 300
    /\ scoring.historical_returns.annualized_return = 100

\* C10: for a price history of fewer than 2 points calculate_historical_returns
\* returns five metrics that are all 0, and calculate_volatility on the
\* returns of that history returns metrics that are all 0 with the
\* assessment "Insufficient Data".
C10_ShortHistory ==
    (/\ scoring.op \in {"calculate_historical_returns", "calculate_volatility"}
     /\ Len(scoring.price_history) < 2) =>
        /\ scoring.historical_returns.annualized_return = 0
        /\ scoring.historical_returns.1y_return = 0
        /\ scoring.historical_returns.3m_return = 0
        /\ scoring.historical_returns.1m_return = 0
        /\ scoring.historical_returns.total_return = 0
        /\ scoring.op = "calculate_volatility" =>
              /\ scoring.volatility_metrics.annualized_volatility = 0
              /\ scoring.volatility_metrics.sharpe_ratio = 0
              /\ scoring.volatility_metrics.max_drawdown = 0
              /\ scoring.volatility_metrics.downside_deviation = 0
              /\ ~scoring.volatility_metrics.downside_is_nan
              /\ scoring.volatility_metrics.volatility_assessment = "Insufficient Data"

\* C10 witness: both functions were called on a history of one price
C10_Witness ==
    /\ scoring.op = "calculate_volatility"
    /\ Len(scoring.price_history) = 1
    /\ scoring.returns = <<>>
    /\ scoring.historical_returns.total_return = 0
    /\ scoring.volatility_metrics.volatility_assessment = "Insufficient Data"

-----------------------------------------------------------------------------
(* Properties of the direct scoring calls *)

\* the weights alpha .. zeta of the row of RISK_PROFILES for a profile
TableWeights(risk_profile) ==
    [name \in Range(ModelParams) |-> RISK_PROFILES[risk_profile][name]]

PoolOf(weighted_components, c) ==
    IF weighted_components[c] > 0
    THEN SumSeq([i \in DOMAIN ComponentNames |->
                    Max2(0, weighted_components[ComponentNames[i]])])
    ELSE SumSeq([i \in DOMAIN ComponentNames |->
                    Min2(0, weighted_components[ComponentNames[i]])])

\* C15: calculate_investment_score never divides by zero (neither raising
\* ZeroDivisionError nor producing nan), and whenever the pool some
\* component would be divided by totals zero it reports every contribution
\* as 0.
C15_ZeroPoolReportsZero ==
    \A i \in DOMAIN scoring.calls :
        LET result == scoring.calls[i].result
        IN /\ ~result.raises
           /\ \A c \in Range(ComponentNames) : ~result.component_contribution[c].nan
           /\ (\E c \in Range(ComponentNames) : PoolOf(result.weighted_components, c) = 0)
                 => \A c \in Range(ComponentNames) :
                        result.component_contribution[c].value = 0

\* C16: a call that returns reports raw_score = alpha (annualized_return -
\* risk_free_rate) + beta growth + gamma fundamentals - delta volatility -
\* epsilon (stock beta - 1) + zeta sentiment, which is the sum of its six
\* weighted_components, and investment_score = clamp((raw_score + 0.2) / 0.7,
\* 0, 1): 0 for raw_score <= -0.2, 1 for raw_score >= 0.5, and never
\* smaller for a larger raw_score.
C16_ScoreFormula ==
    /\ \A i \in DOMAIN scoring.calls :
          LET a == scoring.calls[i].args
              w == scoring.calls[i].weights
              r == scoring.calls[i].result
          IN ~r.raises =>
                /\ 1000 * r.raw_score =
                        60 * w.alpha * (a.historical_returns.annualized_return
                                           - a.risk_free_rate)
                      + 300 * w.beta * a.growth_outlook.composite_score
                      + 6 * w.gamma * a.fundamental_metrics.composite_score
                      - 60 * w.delta * a.volatility_metrics.annualized_volatility
                      - 60 * w.epsilon * (a.systematic_risk.beta - 100)
                      + 50 * w.zeta * a.market_sentiment.composite_score
                /\ r.raw_score = r.weighted_components.returns_premium
                                + r.weighted_components.growth_projection
                                + r.weighted_components.fundamental_metrics
                                + r.weighted_components.volatility
                                + r.weighted_components.systematic_risk
                                + r.weighted_components.market_sentiment
                /\ 10 * r.raw_score <= 0 - 2 * RawDen => r.investment_score = 0
                /\ 10 * r.raw_score >= 5 * RawDen => r.investment_score = ScoreDen
                /\ (10 * r.raw_score > 0 - 2 * RawDen /\ 10 * r.raw_score < 5 * RawDen)
                      => 10 * r.investment_score = 10 * r.raw_score + 2 * RawDen
    /\ \A i, j \in DOMAIN scoring.calls :
          (/\ ~scoring.calls[i].result.raises
           /\ ~scoring.calls[j].result.raises
           /\ scoring.calls[i].result.raw_score <= scoring.calls[j].result.raw_score)
          => scoring.calls[i].result.investment_score
                <= scoring.calls[j].result.investment_score

\* C16 witness: a call with raw_score below -0.2 scored 0 and a call with
\* raw_score above 0.5 scored 1
C16_Witness ==
    /\ Len(scoring.calls) = 2
    /\ ~scoring.calls[1].result.raises
    /\ ~scoring.calls[2].result.raises
    /\ 10 * scoring.calls[1].result.raw_score < 0 - 2 * RawDen
    /\ scoring.calls[1].result.investment_score = 0
    /\ 10 * scoring.calls[2].result.raw_score > 5 * RawDen
    /\ scoring.calls[2].result.investment_score = ScoreDen

\* the score, in tenths, of a value that is bucketed against ascending
\* steps (in tenths of the sector average): 1.0 below the first step, 0.2
\* less for every step reached
BucketScore(value, sector, steps) ==
    10 - 2 * Cardinality({k \in DOMAIN steps : 10 * value >= steps[k] * sector})

\* C17 as stated: P/E and D/E are both bucketed by value / sector average
\* against 0.7, 0.9, 1.1, 1.3, 1.5, so a P/E and a D/E at the same
\* non-negative multiple of their sector averages score the same.
C17_SameLadder ==
    scoring.op = "calculate_fundamental_score" =>
        LET f == scoring.arguments
            r == scoring.fundamental_score
        IN /\ f.pe_ratio >= 0 =>
                 r.normalized_pe = BucketScore(f.pe_ratio, f.sector_pe, <<7, 9, 11, 13, 15>>)
           /\ f.de_ratio >= 0 =>
                 r.normalized_de = BucketScore(f.de_ratio, f.sector_de, <<7, 9, 11, 13, 15>>)
           /\ (/\ f.pe_ratio >= 0
               /\ f.pe_ratio * f.sector_de = f.de_ratio * f.sector_pe)
              => r.normalized_pe = r.normalized_de

\* C17 amended: P/E scores 0 when it is <= 0 and is otherwise bucketed by
\* its multiple of the sector P/E against 0.7, 0.9, 1.1, 1.3, 1.5; D/E scores
\* 0 when it is < 0 and is otherwise bucketed by its multiple of the sector
\* D/E against its own steps 0.5, 0.8, 1.2, 1.5, 2.0.
C17_LadderPerRatio ==
    scoring.op = "calculate_fundamental_score" =>
        LET f == scoring.arguments
            r == scoring.fundamental_score
        IN /\ r.normalized_pe =
                 IF f.pe_ratio <= 0 THEN 0
                 ELSE BucketScore(f.pe_ratio, f.sector_pe, <<7, 9, 11, 13, 15>>)
           /\ r.normalized_de =
                 IF f.de_ratio < 0 THEN 0
                 ELSE BucketScore(f.de_ratio, f.sector_de, <<5, 8, 12, 15, 20>>)

\* C17 witness: at 0.6 times the sector average a P/E scores 1.0 and a D/E
\* scores 0.8
C17_Witness ==
    /\ scoring.op = "calculate_fundamental_score"
    /\ scoring.arguments.pe_ratio = 1200
    /\ scoring.arguments.sector_pe = 2000
    /\ scoring.arguments.de_ratio = 60
    /\ scoring.arguments.sector_de = 100
    /\ scoring.fundamental_score.normalized_pe = 10
    /\ scoring.fundamental_score.normalized_de = 8

\* the score, in tenths, the growth rule gives to a growth of x in an
\* industry growing by g: 0 for x < 0, else 0.2 below 0.5 g and 0.2 more for
\* each of 0.5 g, 0.9 g, 1.1 g, 1.5 g reached
GrowthRule(x, g) ==
    IF x < 0 THEN 0
    ELSE 2 + 2 * Cardinality({k \in {5, 9, 11, 15} : 10 * x >= k * g})

\* C18: earnings growth and revenue growth are bucketed by the same rule
\* against the industry growth rate g, so the same growth value gets the
\* same normalized score as earnings growth and as revenue growth.
C18_SameGrowthRule ==
    scoring.op = "calculate_growth_outlook" =>
        LET a == scoring.arguments
            r == scoring.growth_outlook
        IN /\ r.normalized_earnings = GrowthRule(a.earnings_growth, a.industry_growth)
           /\ r.normalized_revenue = GrowthRule(a.revenue_growth, a.industry_growth)
           /\ a.earnings_growth = a.revenue_growth =>
                 r.normalized_earnings = r.normalized_revenue

-----------------------------------------------------------------------------
(* Properties of get_investment_recommendation *)

Labels == <<"Sell", "Reduce", "Hold", "Buy", "Strong Buy">>

\* C12: after analyze_stock_with_risk_profiles on any stock data,
\* get_investment_recommendation returns for every risk profile a
\* recommendation with its confidence level, suggested action, score and
\* risk notes, never an error dict.
C12_RecommendationForEveryProfile ==
    scoring.op = "analyze_and_recommend" =>
        \A investor_profile \in RiskProfile :
            /\ investor_profile \in DOMAIN scoring.results
            /\ ~scoring.recommendations[investor_profile].error
            /\ scoring.recommendations[investor_profile].recommendation \in Range(Labels)

\* how favourable a label is: 1 for Sell .. 5 for Strong Buy
Rank(label) == CHOOSE i \in DOMAIN Labels : Labels[i] = label

\* the score a recommendation was made from
ScoreOf(risk_profile) == scoring.results[risk_profile].investment_score.investment_score

\* C14: every recommendation carries exactly one of the five labels, the
\* label that the investor profile's thresholds give to the score (Sell
\* below all four thresholds, one step up for each threshold reached); and
\* for one and the same score the low-risk label is never more favourable
\* than the medium-risk label, nor that one than the high-risk label.
C14_LabelsByProfileThresholds ==
    scoring.op \in {"get_investment_recommendation", "analyze_and_recommend"} =>
        /\ \A p \in RiskProfile :
              ~scoring.recommendations[p].error =>
                  LET reached == {t \in DOMAIN thresholds[p] :
                                     100 * ScoreOf(p) >= thresholds[p][t] * ScoreDen}
                  IN /\ scoring.recommendations[p].recommendation \in Range(Labels)
                     /\ Rank(scoring.recommendations[p].recommendation)
                            = 1 + Cardinality(reached)
        /\ \A p, q \in RiskProfile :
              (/\ ~scoring.recommendations[p].error
               /\ ~scoring.recommendations[q].error
               /\ ScoreOf(p) = ScoreOf(q)
               /\ <<p, q>> \in {<<"low_risk", "medium_risk">>, <<"medium_risk", "high_risk">>,
                                 <<"low_risk", "high_risk">>})
              => Rank(scoring.recommendations[p].recommendation)
                    <= Rank(scoring.recommendations[q].recommendation)

\* C14 witness: the score 0.70 is a Buy for the low-risk and the medium-risk
\* investor and a Strong Buy for the high-risk investor
C14_Witness ==
    /\ scoring.op = "get_investment_recommendation"
    /\ 10 * ScoreOf("low_risk") = 7 * ScoreDen
    /\ scoring.recommendations["low_risk"].recommendation = "Buy"
    /\ scoring.recommendations["medium_risk"].recommendation = "Buy"
    /\ scoring.recommendations["high_risk"].recommendation = "Strong Buy"
    /\ scoring.recommendations["high_risk"].confidence_level = "High"

-----------------------------------------------------------------------------
(* Properties of calculate_sentiment_score and calculate_beta *)

Signals == {"price_vs_ma50", "price_vs_ma200", "rsi", "macd", "volume"}

\* the fields a signal needs
Needs(signal) ==
    CASE signal = "price_vs_ma50"  -> {"price", "ma_50"}
      [] signal = "price_vs_ma200" -> {"price", "ma_200"}
      [] signal = "rsi"            -> {"rsi"}
      [] signal = "macd"           -> {"macd", "macd_signal"}
      [] OTHER                     -> {"volume", "avg_volume"}

AvailableSignals(ti) == {signal \in Signals : Needs(signal) \subseteq DOMAIN ti}

\* the value of a signal in halves, 0 for one that is not available
SignalValue(signal, ti) ==
    IF signal \notin AvailableSignals(ti) THEN 0
    ELSE CASE signal = "price_vs_ma50"  -> IF ti["price"] > ti["ma_50"] THEN 2 ELSE 0
           [] signal = "price_vs_ma200" -> IF ti["price"] > ti["ma_200"] THEN 2 ELSE 0
           [] signal = "rsi"            -> IF ti["rsi"] > 70 THEN 0
                                           ELSE IF ti["rsi"] < 30 THEN 1 ELSE 2
           [] signal = "macd"           -> IF ti["macd"] > ti["macd_signal"] THEN 2 ELSE 0
           [] OTHER                     -> IF ti["volume"] > ti["avg_volume"] THEN 2 ELSE 0

SignalTotal(ti) ==
    SignalValue("price_vs_ma50", ti) + SignalValue("price_vs_ma200", ti)
      + SignalValue("rsi", ti) + SignalValue("macd", ti) + SignalValue("volume", ti)

\* C23: the composite sentiment score is the sum of the values of the
\* available signals divided by their number, a signal being counted only
\* if every field it needs is present; with no signal it is 0; it always
\* lies in [0, 1] (0 .. 120 in 120ths).
C23_CompositeIsMeanOfAvailable ==
    scoring.op = "calculate_sentiment_score" =>
        LET ti == scoring.arguments
            r  == scoring.market_sentiment
            n  == Cardinality(AvailableSignals(ti))
        IN /\ Len(r.components) = n
           /\ n = 0 => r.composite_score = 0
           /\ n > 0 => r.composite_score * n = 60 * SignalTotal(ti)
           /\ r.composite_score \in 0 .. 120

\* some signals are missing (one of them for lack of a single field) and
\* the others average to a score strictly between 0 and 1
C23_Witness ==
    /\ scoring.op = "calculate_sentiment_score"
    /\ Cardinality(AvailableSignals(scoring.arguments)) = 3
    /\ "price" \in DOMAIN scoring.arguments
    /\ "ma_50" \notin DOMAIN scoring.arguments
    /\ scoring.market_sentiment.composite_score = 100

\* the days on which both series of the call hold a return
CommonDays ==
    SeriesIndex(scoring.arguments.stock_returns)
        \cap SeriesIndex(scoring.arguments.market_returns)

\* the value a series holds on a day
OnDay(series, day) == series.values[day - series.start + 1]

\* n * n times the sum over the common days of the products of the
\* deviations of x and of y from their means over those days
Deviations(x, y, days) ==
    LET n    == Cardinality(days)
        list == [i \in 1 .. n |-> CHOOSE d \in days : Cardinality({e \in days : e < d}) = i - 1]
        sx   == SumSeq([i \in 1 .. n |-> OnDay(x, list[i])])
        sy   == SumSeq([i \in 1 .. n |-> OnDay(y, list[i])])
    IN SumSeq([i \in 1 .. n |-> (n * OnDay(x, list[i]) - sx) * (n * OnDay(y, list[i]) - sy)])

\* C24: calculate_beta returns beta 1.0 whenever fewer than 10 aligned pairs
\* of returns exist or the market variance is 0, and covariance / market
\* variance otherwise; with fewer than 10 pairs r_squared, alpha and
\* tracking_error are 0 and the assessment is "Insufficient Data".
C24_BetaOrDefault ==
    scoring.op = "calculate_beta" =>
        LET stock_returns  == scoring.arguments.stock_returns
            market_returns == scoring.arguments.market_returns
            r      == scoring.systematic_risk
            var    == Deviations(market_returns, market_returns, CommonDays)
        IN /\ Cardinality(CommonDays) < 10 =>
                 /\ r.beta = 100
                 /\ r.r_squared = 0 /\ ~r.r_squared_is_nan
                 /\ r.alpha = 0
                 /\ r.tracking_error = 0
                 /\ r.beta_assessment = "Insufficient Data"
           /\ (Cardinality(CommonDays) >= 10 /\ var = 0) => r.beta = 100
           /\ (Cardinality(CommonDays) >= 10 /\ var # 0) =>
                 /\ r.beta = (100 * Deviations(stock_returns, market_returns, CommonDays)) \div var
                 /\ r.beta_assessment # "Insufficient Data"

\* two series of 12 returns each that share only 9 days
C24_Witness ==
    /\ scoring.op = "calculate_beta"
    /\ Len(scoring.arguments.stock_returns.values) = 12
    /\ Len(scoring.arguments.market_returns.values) = 12
    /\ Cardinality(CommonDays) = 9
    /\ scoring.systematic_risk.beta_assessment = "Insufficient Data"

-----------------------------------------------------------------------------
(* Properties of the data loaders *)

\* the key is not in the dict the source answered, or the source failed
Unavailable(key) == ~loader.available \/ key \notin DOMAIN loader.info

\* C22: whenever a fundamental field, the treasury yield or a sector
\* average is unavailable from the source, the value handed to scoring is
\* the documented default: P/E 20.0, D/E 1.0, ROE 0.15, FCF yield 0.05,
\* profit margin 0.15, treasury yield 0.04, sector P/E 20.0, sector D/E 1.2,
\* in DataLoader and in PortfolioOptimizationModel alike.
C22_DocumentedDefaults ==
    /\ loader.op \in {"get_rating_model_data", "fetch_stock_data"} =>
          /\ Unavailable("trailingPE") => loader.result.pe_ratio = 20 * 100
          /\ Unavailable("debtToEquity") => loader.result.de_ratio = 100
          /\ Unavailable("returnOnEquity") => loader.result.roe = 15
          /\ (Unavailable("freeCashflow") \/ Unavailable("marketCap")) =>
                loader.result.fcf_yield = 5
          /\ Unavailable("profitMargin") => loader.result.profit_margin = 15
    /\ loader.op \in {"get_market_data", "fetch_market_data"} =>
          /\ loader.result.sector_pe = 20 * 100
          /\ loader.result.sector_de = 120
    /\ loader.op = "get_market_data" =>
          (Unavailable("regularMarketPrice") => loader.result.treasury_yield = 4 * 100)
    /\ loader.op = "fetch_market_data" =>
          ((~loader.available \/ loader.closes = <<>>) =>
                loader.result.treasury_yield = 4 * 100)

\* the risk notes whose trigger holds for an entry of the analysis results
DueNotes(entry) ==
    {note \in {"High price volatility detected", "High market sensitivity (beta)",
               "High debt levels relative to sector", "Weak growth outlook"} :
        \/ note = "High price volatility detected"
              /\ entry.volatility_metrics.annualized_volatility > 25
        \/ note = "High market sensitivity (beta)" /\ entry.beta_metrics.beta > 150
        \/ note = "High debt levels relative to sector"
              /\ entry.fundamental_score.normalized_de < 3
        \/ note = "Weak growth outlook" /\ entry.growth_outlook.composite_score < 6}

\* C25: the risk notes of a recommendation hold exactly one note for each
\* trigger that holds (volatility above 0.25, beta above 1.5, normalized D/E
\* score below 0.3, growth composite below 0.3) and none otherwise,
\* whatever the label and the investor profile.
C25_OneNotePerTrigger ==
    scoring.op \in {"get_investment_recommendation", "analyze_and_recommend"} =>
        \A investor_profile \in RiskProfile :
            LET rec == scoring.recommendations[investor_profile]
            IN ~rec.error =>
                  /\ Range(rec.risk_notes) = DueNotes(scoring.results[investor_profile])
                  /\ Len(rec.risk_notes) = Cardinality(Range(rec.risk_notes))

\* a "Strong Buy" with two notes, and metrics that sit on the bounds of the
\* other two
C25_Witness ==
    /\ scoring.op = "get_investment_recommendation"
    /\ scoring.recommendations["low_risk"].recommendation = "Strong Buy"
    /\ scoring.recommendations["low_risk"].risk_notes
          = <<"High price volatility detected", "Weak growth outlook">>
    /\ scoring.results["low_risk"].beta_metrics.beta = 150
    /\ scoring.results["low_risk"].fundamental_score.normalized_de = 3

-----------------------------------------------------------------------------
(* Properties of switch_risk_profile *)

\* the denominator of a weight of the model m
DenOf(m, name) == IF name \in Range(ModelParams) THEN m.model_den ELSE m.fundamental_den

\* whether the weight a / b equals the weight c / d, for numerators that
\* are whole thousands
SameWeight(a, b, c, d) ==
    /\ a % 1000 = 0 /\ c % 1000 = 0
    /\ (a \div 1000) * d = (c \div 1000) * b

\* C26: after switch_risk_profile(p) on any RatingModel, one built with
\* custom overrides included, risk_profile is p and every one of the eleven
\* weights equals its entry of RISK_PROFILES[p], so that the model is the
\* model a fresh construction for p gives.
C26_SwitchedEqualsFresh ==
    scoring.op = "switch_risk_profile" =>
        LET new_profile == scoring.arguments.new_profile
        IN /\ rating.risk_profile = new_profile
           /\ \A name \in Range(ModelParams) \cup Range(FundamentalParams) :
                 SameWeight(rating[name], DenOf(rating, name),
                            RISK_PROFILES[new_profile][name], WeightDen)
           /\ rating = GetModelForRiskProfile(new_profile)

\* the switch was made on a model of another profile whose overridden
\* weights had been normalized
C26_Witness ==
    /\ scoring.op = "switch_risk_profile"
    /\ scoring.arguments.self.risk_profile # scoring.arguments.new_profile
    /\ scoring.arguments.self.model_den # WeightDen
    /\ scoring.arguments.self.alpha = 30000
    /\ rating.risk_profile = "low_risk"

-----------------------------------------------------------------------------
(* Properties of the Nessie handlers *)

\* C27: GET /merchant/{merchant_id} for an id with no stored merchant
\* answers 404 "Merchant not found", POST /investment/add for a user with no
\* record answers 404; a not-found outcome is never answered with a 500.
C27_NotFoundIs404 ==
    /\ (/\ http.op = "get_merchant"
        /\ ~GetMerchantById(LoadJson(merchants_db), http.merchant_id).found)
          => /\ http.response.status = 404
             /\ http.response.detail = "Merchant not found"
    /\ (http.op = "add_investment" /\ http.user \notin DOMAIN LoadJson(http.user_purchases))
          => http.response.status = 404

\* C28: for any interleaving of concurrent /merchant/create requests, once
\* all have returned, the merchant of every request that was answered with
\* an id is in the store, and the stored merchant ids are pairwise distinct.
C28_NoMerchantLost ==
    (threads # <<>> /\ \A t \in DOMAIN threads : threads[t].pc = "done") =>
        LET merchants == LoadJson(merchants_db)
        IN /\ \A t \in DOMAIN threads :
                 threads[t].status = 200 =>
                    \E i \in DOMAIN merchants :
                        /\ merchants[i].name = threads[t].name
                        /\ merchants[i].merchant_id = threads[t].merchant_id
           /\ \A i, j \in DOMAIN merchants :
                 merchants[i].merchant_id = merchants[j].merchant_id => i = j

\* the record of a user without its investments
WithoutInvestments(record) == [key \in DOMAIN record \ {"investments"} |-> record[key]]

\* C29: add_investment for an unknown user returns False and leaves the
\* store as it was; for a known user it returns True, appends exactly one
\* investment to that user's investments, and leaves every other user's
\* record and that user's purchases as they were.
C29_AddInvestmentFrame ==
    http.op = "add_investment" =>
        LET before == LoadJson(http.user_purchases)
            after  == LoadJson(user_purchases)
            user   == http.user
        IN /\ user \notin DOMAIN before =>
                 /\ ~http.success
                 /\ user_purchases = http.user_purchases
           /\ user \in DOMAIN before =>
                 /\ http.success
                 /\ DOMAIN after = DOMAIN before
                 /\ Len(InvestmentsOf(after, user)) = Len(InvestmentsOf(before, user)) + 1
                 /\ SubSeq(InvestmentsOf(after, user), 1, Len(InvestmentsOf(before, user)))
                       = InvestmentsOf(before, user)
                 /\ LET last == InvestmentsOf(after, user)[Len(InvestmentsOf(after, user))]
                    IN /\ last.merchant_id = http.investment_details.merchant_id
                       /\ last.amount = http.investment_details.amount
                 /\ WithoutInvestments(after[user]) = WithoutInvestments(before[user])
                 /\ \A other \in DOMAIN before \ {user} : after[other] = before[other]

\* a second investment is added for a user while another user has a record
\* with investments of its own
C29_Witness ==
    /\ http.op = "add_investment"
    /\ http.success
    /\ Len(InvestmentsOf(LoadJson(user_purchases), http.user)) = 2
    /\ \E other \in DOMAIN LoadJson(user_purchases) \ {http.user} :
          Len(InvestmentsOf(LoadJson(user_purchases), other)) = 1

\* add_investment was called for a user without a record
C29_WitnessUnknown ==
    /\ http.op = "add_investment"
    /\ ~http.success
    /\ DOMAIN LoadJson(user_purchases) # {}

-----------------------------------------------------------------------------
(* Properties of get_connected_merchants *)

\* the ids reached from the start over at most hops links
RECURSIVE ReachedWithin(_, _, _)
ReachedWithin(merchants, start, hops) ==
    IF hops <= 0 THEN {start}
    ELSE LET nearer == ReachedWithin(merchants, start, hops - 1)
         IN nearer \cup UNION {LinksOf(merchants, id) : id \in nearer}

\* the number of links stored for the merchants of ids
RECURSIVE LinksAmong(_, _)
LinksAmong(merchants, ids) ==
    IF ids = {} THEN 0
    ELSE LET id == CHOOSE one \in ids : TRUE
         IN Cardinality(merchants[id]) + LinksAmong(merchants, ids \ {id})

LinkCount(merchants) == LinksAmong(merchants, DOMAIN merchants)

\* the loop takes no more turns than one per link and one for the start,
\* and what is returned for a stored merchant is exactly the stored
\* merchants other than merchant_id that are reached over at most depth
\* links, each listed once
ConnectedWithinDepth ==
    /\ traversal.pc \in {"loop", "done"} =>
          traversal.turns <= 1 + LinkCount(traversal.merchants)
    /\ (traversal.pc = "done" /\ traversal.merchant_id \in DOMAIN traversal.merchants) =>
          /\ traversal.response.status = 200
          /\ Range(traversal.response.body)
                = (ReachedWithin(traversal.merchants, traversal.merchant_id, traversal.depth)
                      \ {traversal.merchant_id}) \cap DOMAIN traversal.merchants
          /\ Len(traversal.response.body) = Cardinality(Range(traversal.response.body))

\* C30: for any stored connection graph, cycles and self-loops included,
\* get_connected_merchants(merchant_id, depth) of a stored merchant
\* terminates and returns exactly the stored merchants other than
\* merchant_id that are reached over at most depth links, each listed once.
C30_TerminatesWithConnected ==
    /\ []ConnectedWithinDepth
    /\ (traversal.pc = "loop") ~> (traversal.pc = "done")

\* a cycle through the merchant asked about, with a self-loop on the way
\* and a link to a merchant that is not stored
C30_Witness ==
    /\ traversal.pc = "done"
    /\ traversal.merchant_id = "a"
    /\ traversal.depth = 2
    /\ DOMAIN traversal.merchants = {"a", "b"}
    /\ traversal.merchants["a"] = {"b"}
    /\ traversal.merchants["b"] = {"a", "c"}
    /\ traversal.response.body = <<"b">>

====
